---------------------------- MODULE Spec2Model ----------------------------
(***************************************************************************)
(* A model of rbx-products: the rate-limit transport (api/middleware.rs),  *)
(* the paginated fetcher (api/products.rs), the catalog model and the diff *)
(* (sync/products.rs), and the download merge (sync/download.rs).          *)
(*                                                                         *)
(* Conventions.                                                            *)
(*   Option<T>   a sequence of length 0 (None) or 1 (Some(v) = <<v>>).     *)
(*   String      a sequence of characters, each character a one-element    *)
(*               TLA+ string ("a", " ", "#"); a character outside ASCII is *)
(*               written by its code point ("U+1F4B2").                    *)
(***************************************************************************)
EXTENDS Integers, Sequences, FiniteSets, TLC

VARIABLES
    \* ---- rate-limit transport (api/middleware.rs, api/mod.rs)
    api_token,      \* API_TOKEN: Option<String>
    treq,           \* the logical requests in flight: request -> its handle() frame
    tlog,           \* what the network has seen of each request
    \* ---- paginated fetcher (api/products.rs)
    server,         \* the listing the server holds: a chain of pages
    fetch,          \* the frame of fetch_all_dev_products / fetch_all_gamepasses
    \* ---- diff (sync/products.rs)
    dcase,          \* the inputs of one Product::diff call and its result
    \* ---- download merge (sync/download.rs)
    dl,             \* the frame of Downloader::download
    \* ---- upload (sync/upload.rs)
    up,             \* the frame of Uploader::upload
    \* ---- single calls (sync/products.rs, api/model.rs, utils.rs, api/middleware.rs)
    fcall           \* the inputs of one call of a function and its result

vars == <<api_token, treq, tlog, server, fetch, dcase, dl, up, fcall>>

(***************************************************************************)
(* Option                                                                  *)
(***************************************************************************)
None == <<>>

Some(v) == <<v>>

IsSome(o) == Len(o) = 1

IsNone(o) == Len(o) = 0

Unwrap(o) == o[1]

UnwrapOr(o, d) == IF IsSome(o) THEN o[1] ELSE d

OptionOf(S) == {None} \cup {Some(v) : v \in S}

(***************************************************************************)
(* Characters and strings                                                  *)
(***************************************************************************)
LowerSeq == <<"a","b","c","d","e","f","g","h","i","j","k","l","m",
              "n","o","p","q","r","s","t","u","v","w","x","y","z">>

UpperSeq == <<"A","B","C","D","E","F","G","H","I","J","K","L","M",
              "N","O","P","Q","R","S","T","U","V","W","X","Y","Z">>

DigitSeq == <<"0","1","2","3","4","5","6","7","8","9">>

Range(s) == {s[i] : i \in DOMAIN s}

\* char::is_whitespace, and the class \s of the regex crate, on the
\* characters the model uses
IsWhitespace(c) == c \in {" ", "\t", "\n"}

\* char::is_ascii_alphanumeric
IsAsciiAlnum(c) == c \in Range(LowerSeq) \cup Range(UpperSeq) \cup Range(DigitSeq)

\* char::to_lowercase on one character: of the non-ASCII characters of the
\* model only U+0178 (Y with diaeresis) has a lowercase form, U+00FF
LowerChar(c) ==
    IF c \in Range(UpperSeq)
    THEN LowerSeq[CHOOSE i \in DOMAIN UpperSeq : UpperSeq[i] = c]
    ELSE IF c = "U+0178" THEN "U+00FF"
    ELSE c

\* str::to_lowercase
ToLowercase(s) == [i \in DOMAIN s |-> LowerChar(s[i])]

RECURSIVE TrimStart(_)
TrimStart(s) ==
    IF s # <<>> /\ IsWhitespace(Head(s)) THEN TrimStart(Tail(s)) ELSE s

RECURSIVE TrimEnd(_)
TrimEnd(s) ==
    IF s # <<>> /\ IsWhitespace(s[Len(s)])
    THEN TrimEnd(SubSeq(s, 1, Len(s) - 1)) ELSE s

\* str::trim
Trim(s) == TrimEnd(TrimStart(s))

\* whether pat occurs in s at position i
MatchesAt(s, i, pat) ==
    /\ i + Len(pat) - 1 <= Len(s)
    /\ \A k \in 1..Len(pat) : s[i + k - 1] = pat[k]

\* u64::to_string / u8::to_string
RECURSIVE ToDecimal(_)
ToDecimal(n) ==
    IF n < 10 THEN <<DigitSeq[n + 1]>>
    ELSE ToDecimal(n \div 10) \o <<DigitSeq[(n % 10) + 1]>>

DigitValue(c) == (CHOOSE i \in DOMAIN DigitSeq : DigitSeq[i] = c) - 1

RECURSIVE DecimalValue(_)
DecimalValue(s) ==
    IF s = <<>> THEN 0
    ELSE 10 * DecimalValue(SubSeq(s, 1, Len(s) - 1)) + DigitValue(s[Len(s)])


\* str::parse::<u64> of a trimmed header value: an optional "+" followed by
\* one or more digits (the model's values stay far below 2^64)
ParseU64(s) ==
    LET body == IF s # <<>> /\ Head(s) = "+" THEN Tail(s) ELSE s
    IN  IF body # <<>> /\ \A i \in DOMAIN body : body[i] \in Range(DigitSeq)
        THEN Some(DecimalValue(body))
        ELSE None

(***************************************************************************)
(* Names: utils.rs                                                         *)
(***************************************************************************)
\* the four characters the source of utils.rs holds where the emoji of the
\* discount template was meant (U+1F4B2 read as Windows-1252)
MOJIBAKE == <<"U+00F0", "U+0178", "U+2019", "U+00B2">>

\* The regular expressions of the model. Lazy(a, b) is the pattern a.*?b for
\* literals a and b; NotIn(keep) is a negated character class; Lit(a) is
\* the literal a.
Lazy(open, close) == [kind |-> "lazy", open |-> open, close |-> close, keep |-> {}]

NotIn(keep) == [kind |-> "notin", open |-> <<>>, close |-> <<>>, keep |-> keep]

Lit(text) == [kind |-> "lit", open |-> text, close |-> <<>>, keep |-> {}]

\* DEFAULT_FILTERS (utils.rs lines 8-18)
DEFAULT_FILTERS ==
    <<Lazy(MOJIBAKE, <<"%", " ", "O", "F", "F">> \o MOJIBAKE),
      Lazy(<<"[">>, <<"]">>),
      NotIn(Range(LowerSeq) \cup Range(UpperSeq) \cup Range(DigitSeq)
            \cup {"!", "?", ",", ".", "-"} \cup {" ", "\t", "\n"})>>

\* the end of the shortest match of a.*?b whose a ends just before
\* position j, or 0: `.` does not match a line feed
RECURSIVE LazyEnd(_, _, _)
LazyEnd(s, j, close) ==
    IF j + Len(close) - 1 > Len(s) THEN 0
    ELSE IF MatchesAt(s, j, close) THEN j + Len(close) - 1
    ELSE IF s[j] = "\n" THEN 0
    ELSE LazyEnd(s, j + 1, close)

\* the last position of the match of filter f that starts at position i of
\* s, or 0 when there is none
MatchEnd(s, i, f) ==
    IF f.kind = "lazy"
    THEN IF MatchesAt(s, i, f.open) THEN LazyEnd(s, i + Len(f.open), f.close) ELSE 0
    ELSE IF f.kind = "lit"
    THEN IF MatchesAt(s, i, f.open) THEN i + Len(f.open) - 1 ELSE 0
    ELSE IF s[i] \notin f.keep THEN i ELSE 0

\* Regex::replace_all(&out, " "): the leftmost matches, none overlapping
RECURSIVE ReplaceAllFrom(_, _, _)
ReplaceAllFrom(s, i, f) ==
    IF i > Len(s) THEN <<>>
    ELSE LET e == MatchEnd(s, i, f)
         IN  IF e > 0 THEN <<" ">> \o ReplaceAllFrom(s, e + 1, f)
             ELSE <<s[i]>> \o ReplaceAllFrom(s, i + 1, f)

ReplaceAll(s, f) == ReplaceAllFrom(s, 1, f)

\* WS.replace_all(&out, " "): every run of whitespace becomes one space
RECURSIVE CollapseWhitespace(_)
CollapseWhitespace(s) ==
    IF s = <<>> THEN <<>>
    ELSE IF IsWhitespace(Head(s))
    THEN <<" ">> \o CollapseWhitespace(TrimStart(s))
    ELSE <<Head(s)>> \o CollapseWhitespace(Tail(s))

RECURSIVE ApplyFilters(_, _)
ApplyFilters(s, fs) ==
    IF fs = <<>> THEN s ELSE ApplyFilters(ReplaceAll(s, Head(fs)), Tail(fs))

\* canonical_name; filters is the Option<Vec<Regex>> of the metadata
canonical_name(s, filters) ==
    LET given == UnwrapOr(filters, <<>>)
        name_filters == IF Len(given) = 0 THEN DEFAULT_FILTERS ELSE given
    IN  Trim(CollapseWhitespace(ApplyFilters(s, name_filters)))

IsSlugChar(c) == IsAsciiAlnum(c) \/ IsWhitespace(c)

HyphenIfSpace(c) == IF IsWhitespace(c) THEN "-" ELSE c

\* format_name
format_name(name) ==
    LET lower == ToLowercase(name)
        kept  == Trim(SelectSeq(lower, IsSlugChar))
    IN  [i \in DOMAIN kept |-> HyphenIfSpace(kept[i])]

IsCensoredChar(c) == c = "#" \/ IsWhitespace(c)

\* is_censored
is_censored(s) == \A i \in DOMAIN s : IsCensoredChar(s[i])

(***************************************************************************)
(* Rate-limit transport: api/middleware.rs, api/mod.rs                     *)
(***************************************************************************)
\* RobloxRateLimitMiddleware::new().with_max_429_retries(5)
max_429_retries == 5

\* RobloxRateLimitMiddleware::new(): cushion_ms: 75
cushion_ms == 75

TOO_MANY_REQUESTS == 429

\* the number of logical requests in flight
NumRequests == 2

Requests == 1..NumRequests

\* the credentials set_api_token may be called with
TokenValues == {<<"k","e","y">>, <<"k","2">>}

\* the answers of the server to one send: a response (status, the two
\* rate-limit headers), or a transport error
Response(st, ra, rs) ==
    [kind |-> "Ok", status |-> st, retry_after |-> ra, reset |-> rs]

TransportError ==
    [kind |-> "Err", status |-> 0, retry_after |-> None, reset |-> None]

Outcomes ==
    {Response(200, None, None), Response(500, None, None), TransportError,
     Response(TOO_MANY_REQUESTS, None, None),
     Response(TOO_MANY_REQUESTS, Some(<<"2">>), Some(<<"3">>))}

\* a wait that gives the default when retry-after is there and does not parse
retry_wait_no_fall_through(resp) ==
    IF IsSome(resp.retry_after)
    THEN UnwrapOr(ParseU64(Trim(Unwrap(resp.retry_after))), 1)
    ELSE IF IsSome(resp.reset)
    THEN UnwrapOr(ParseU64(Trim(Unwrap(resp.reset))), 1)
    ELSE 1

\* RobloxRateLimitMiddleware::retry_wait_from_headers, in seconds
retry_wait_from_headers(resp) ==
    LET ra == IF IsSome(resp.retry_after)
              THEN ParseU64(Trim(Unwrap(resp.retry_after))) ELSE None
        rs == IF IsSome(resp.reset)
              THEN ParseU64(Trim(Unwrap(resp.reset))) ELSE None
    IN  IF IsSome(ra) THEN Unwrap(ra)
        ELSE IF IsSome(rs) THEN Unwrap(rs)
        ELSE 1

\* the frame of one logical request before the client is called
IdleFrame(cloneable) ==
    [pc        |-> "idle",
     cloneable |-> cloneable,   \* whether Request::try_clone gives Some
     key       |-> None,        \* the x-api-key header of the request
     attempt   |-> 0,           \* the loop variable of handle
     wait_ms   |-> 0,           \* the duration handed to tokio::time::sleep
     resp      |-> None,        \* the local resp: the last response received
     result    |-> None]        \* what handle returned to the caller

\* what the network has seen of one logical request
EmptyLog ==
    [token    |-> None,         \* API_TOKEN when the request was handed over
     sends    |-> 0,            \* calls of next.run
     keyed    |-> 0,            \* sends that carried an x-api-key header
     n429     |-> 0,            \* sends answered with 429
     out      |-> None,         \* the answer to the last send, once it is there
     sleeps   |-> 0,            \* calls of tokio::time::sleep
     slept_ms |-> 0]            \* duration of the last sleep

\* a handle that leaves the request as it came
auth_handle_no_key(f, token) == [f EXCEPT !.pc = "send"]

\* RobloxAuthMiddleware::handle: the header is set from API_TOKEN once, then
\* the rate-limit middleware runs
auth_handle(f, token) ==
    [f EXCEPT !.pc = "send", !.key = token]

\* whether a 429 received in this attempt ends the loop of handle
\* (middleware.rs line 104)
retries_exhausted_late(attempt) == attempt > max_429_retries

retries_exhausted_early(attempt) == attempt + 1 >= max_429_retries

retries_exhausted_at_once(attempt) == attempt >= 1

retries_exhausted(attempt) == attempt >= max_429_retries

\* RobloxRateLimitMiddleware::handle, lines 97-98: the clone is taken, the
\* request is passed on and handle waits for the answer
handle_run(f) == [f EXCEPT !.pc = "await"]

\* RobloxRateLimitMiddleware::handle, lines 98-116: what follows the answer
\* to one send, up to the return or the sleep
handle_retry_always(f, out) ==
    IF out.kind = "Err" \/ retries_exhausted(f.attempt)
    THEN [f EXCEPT !.pc = "done", !.result = Some(out)]
    ELSE [f EXCEPT !.pc = "sleep", !.resp = Some(out),
                   !.wait_ms = retry_wait_from_headers(out) * 1000 + cushion_ms]

\* a handle that sleeps for the wait of the headers alone
handle_send_no_cushion(f, out) ==
    IF out.kind = "Err"
    THEN [f EXCEPT !.pc = "done", !.result = Some(out)]
    ELSE IF out.status # TOO_MANY_REQUESTS
    THEN [f EXCEPT !.pc = "done", !.resp = Some(out), !.result = Some(out)]
    ELSE IF retries_exhausted(f.attempt)
    THEN [f EXCEPT !.pc = "done", !.resp = Some(out), !.result = Some(out)]
    ELSE [f EXCEPT !.pc = "sleep", !.resp = Some(out),
                   !.wait_ms = retry_wait_from_headers(out) * 1000]

handle_send(f, out) ==
    IF out.kind = "Err"
    THEN [f EXCEPT !.pc = "done", !.result = Some(out)]
    ELSE IF out.status # TOO_MANY_REQUESTS
    THEN [f EXCEPT !.pc = "done", !.resp = Some(out), !.result = Some(out)]
    ELSE IF retries_exhausted(f.attempt)
    THEN [f EXCEPT !.pc = "done", !.resp = Some(out), !.result = Some(out)]
    ELSE [f EXCEPT !.pc = "sleep", !.resp = Some(out),
                   !.wait_ms = retry_wait_from_headers(out) * 1000 + cushion_ms]

\* a wake that sends again whether or not there is a clone
handle_wake_resend(f) == [f EXCEPT !.pc = "send", !.attempt = @ + 1]

\* RobloxRateLimitMiddleware::handle, lines 118-122: after the sleep the
\* clone taken before the send replaces the request, or the 429 is returned
handle_wake(f) ==
    IF f.cloneable
    THEN [f EXCEPT !.pc = "send", !.attempt = @ + 1]
    ELSE [f EXCEPT !.pc = "done", !.result = f.resp]

(***************************************************************************)
(* The values the variables of a component hold while another component    *)
(* is exercised                                                            *)
(***************************************************************************)
TransportOff == /\ api_token = None
                /\ treq = <<>>
                /\ tlog = <<>>

FetchOff == /\ server = <<>>
            /\ fetch = [pc |-> "off"]

DiffOff == dcase = [pc |-> "off"]

DownloadOff == dl = [pc |-> "off"]

UploadOff == up = [pc |-> "off"]

CallOff == fcall = [pc |-> "off"]

tvars == <<api_token, treq, tlog>>

fvars == <<server, fetch>>

(***************************************************************************)
(* SpecTransport: NumRequests logical requests pass through the client     *)
(* middleware stack (auth, then rate limit) against a server that answers  *)
(* each send with any outcome.                                             *)
(***************************************************************************)
InitTransport ==
    /\ api_token = None
    /\ treq \in [Requests -> {IdleFrame(c) : c \in BOOLEAN}]
    /\ tlog = [r \in Requests |-> EmptyLog]
    /\ FetchOff /\ DiffOff /\ DownloadOff /\ UploadOff /\ CallOff

\* api::set_api_token(token): main calls it once, before the first request,
\* when RBX_API_KEY is set; it is public and may be called at any time
SetApiToken(token) ==
    /\ api_token' = Some(token)
    /\ UNCHANGED <<treq, tlog, fvars, dcase, dl, up, fcall>>

\* the caller hands request r to the client: RobloxAuthMiddleware::handle
AuthHandle(r) ==
    /\ treq[r].pc = "idle"
    /\ treq' = [treq EXCEPT ![r] = auth_handle(@, api_token)]
    /\ tlog' = [tlog EXCEPT ![r].token = api_token]
    /\ UNCHANGED <<api_token, fvars, dcase, dl, up, fcall>>

\* the loop of RobloxRateLimitMiddleware::handle up to the await of line 98:
\* the request is on its way and no answer is there yet
Send(r) ==
    /\ treq[r].pc = "send"
    /\ treq' = [treq EXCEPT ![r] = handle_run(@)]
    /\ tlog' = [tlog EXCEPT
          ![r].sends = @ + 1,
          ![r].keyed = IF IsSome(treq[r].key) THEN @ + 1 ELSE @,
          ![r].out = None]
    /\ UNCHANGED <<api_token, fvars, dcase, dl, up, fcall>>

\* the server answers the send of request r with out: the loop goes on to
\* its return or its sleep
Answer(r) ==
    /\ treq[r].pc = "await"
    /\ \E out \in Outcomes :
         LET f == handle_send(treq[r], out)
         IN  /\ treq' = [treq EXCEPT ![r] = f]
             /\ tlog' = [tlog EXCEPT
                   ![r].n429 = IF out.kind = "Ok" /\ out.status = TOO_MANY_REQUESTS
                               THEN @ + 1 ELSE @,
                   ![r].out = Some(out),
                   ![r].sleeps = IF f.pc = "sleep" THEN @ + 1 ELSE @,
                   ![r].slept_ms = IF f.pc = "sleep" THEN f.wait_ms ELSE @]
    /\ UNCHANGED <<api_token, fvars, dcase, dl, up, fcall>>

\* the sleep of request r ends: the rest of the loop body
Wake(r) ==
    /\ treq[r].pc = "sleep"
    /\ treq' = [treq EXCEPT ![r] = handle_wake(@)]
    /\ UNCHANGED <<api_token, tlog, fvars, dcase, dl, up, fcall>>

NextTransport ==
    \/ \E token \in TokenValues : SetApiToken(token)
    \/ \E r \in Requests : AuthHandle(r)
    \/ \E r \in Requests : Send(r)
    \/ \E r \in Requests : Answer(r)
    \/ \E r \in Requests : Wake(r)

SpecTransport == InitTransport /\ [][NextTransport]_vars

(***************************************************************************)
(* Claims about the rate-limit transport (SpecTransport)                   *)
(***************************************************************************)
Is429(out) == out.kind = "Ok" /\ out.status = TOO_MANY_REQUESTS

\* C1: whatever the server answers, one logical request is sent at most
\* max_429_retries + 1 times (re-sent at most max_429_retries times); and
\* when every send was answered with 429, what the caller gets is the last
\* 429 response, as a response and not as an error.
C1_SendsCappedAndLast429Returned ==
    \A r \in Requests :
        /\ tlog[r].sends <= max_429_retries + 1
        /\ (treq[r].pc = "done" /\ tlog[r].n429 = tlog[r].sends)
              => /\ treq[r].result = tlog[r].out
                 /\ Unwrap(treq[r].result).kind = "Ok"
                 /\ Unwrap(treq[r].result).status = TOO_MANY_REQUESTS

\* a request answered with 429 on each of its max_429_retries + 1 sends has
\* returned
C1_Witness ==
    \E r \in Requests :
        /\ treq[r].pc = "done"
        /\ tlog[r].sends = max_429_retries + 1
        /\ tlog[r].n429 = tlog[r].sends

\* C2 as stated: with max-retries = 5, once the server has answered a
\* request with 429 five consecutive times the transport has returned that
\* fifth 429 and there is no sixth send.
C2_Original_FifthReturned ==
    \A r \in Requests :
        tlog[r].n429 >= 5
            => /\ tlog[r].sends = 5
               /\ treq[r].pc = "done"
               /\ treq[r].result = tlog[r].out

\* C2 amended: with max-retries = 5, the fifth consecutive 429 is not
\* returned: the transport sleeps and sends the request a sixth time; a
\* sixth consecutive 429 is returned to the caller, and the request is never
\* sent a seventh time.
C2_SixthReturned ==
    \A r \in Requests :
        /\ (tlog[r].n429 = 5 /\ tlog[r].sends = 5)
              => /\ treq[r].pc \in {"sleep", "send"}
                 /\ treq[r].result = None
        /\ tlog[r].n429 = 6
              => /\ treq[r].pc = "done"
                 /\ tlog[r].sends = 6
                 /\ treq[r].result = tlog[r].out
                 /\ Is429(Unwrap(treq[r].result))
        /\ tlog[r].sends <= 6

\* the sixth consecutive 429 has been returned
C2_Witness ==
    \E r \in Requests : tlog[r].n429 = 6 /\ treq[r].pc = "done"

\* C3: once a send is answered with a response whose status is not 429, or
\* fails with a transport error, handle has returned exactly that answer:
\* there is no sleep after it (every sleep follows an earlier, rate-limited
\* send) and, the request being done, no further send.
C3_Non429ReturnedAtOnce ==
    \A r \in Requests :
        (IsSome(tlog[r].out) /\ ~Is429(Unwrap(tlog[r].out)))
            => /\ treq[r].pc = "done"
               /\ treq[r].result = tlog[r].out
               /\ tlog[r].sleeps = tlog[r].sends - 1
               /\ tlog[r].n429 = tlog[r].sends - 1

\* a retried request whose third send got a 500, and one whose send failed
C3_Witness ==
    /\ \E r \in Requests :
         /\ tlog[r].sends = 3
         /\ tlog[r].out = Some(Response(500, None, None))
         /\ treq[r].pc = "done"
    /\ \E r \in Requests :
         /\ tlog[r].out = Some(TransportError)
         /\ treq[r].pc = "done"

(***************************************************************************)
(* Paginated fetcher: api/products.rs                                      *)
(***************************************************************************)
\* the longest chain of pages a listing has
MaxPages == 3

\* the most items one page carries
MaxPageItems == 2

\* the requests after which a fetch is no longer followed
MaxFetchRequests == 5

\* the cursor strings a server may hand out; the first is the empty string
Cursors == {<<>>, <<"c","1">>, <<"c","2">>}

Kinds == {"GamePass", "DevProduct"}

RECURSIVE SumTo(_, _)
SumTo(counts, k) == IF k = 0 THEN 0 ELSE SumTo(counts, k - 1) + counts[k]

\* a listing: page i carries counts[i] items, numbered through the listing,
\* and the next-cursor cur[i]; the last page carries none
Listing(counts, cur) ==
    [i \in 1..Len(counts) |->
        [items |-> [j \in 1..counts[i] |-> SumTo(counts, i - 1) + j],
         next  |-> IF i < Len(counts) THEN Some(cur[i]) ELSE None]]

\* the listings of the model: chains whose cursors are pairwise distinct
Listings ==
    UNION {
      {Listing(counts, cur) :
          counts \in [1..n -> 0..MaxPageItems],
          cur \in {c \in [1..(n - 1) -> Cursors] :
                      \A i, j \in 1..(n - 1) : i # j => c[i] # c[j]}}
      : n \in 1..MaxPages}

\* the page the server answers a list request with: the first page when the
\* request has no pageToken parameter, else the page that follows the page
\* that handed out the token
ServerPage(pages, token) ==
    IF IsNone(token) THEN pages[1]
    ELSE pages[(CHOOSE i \in 1..Len(pages) : pages[i].next = token) + 1]

\* the pageToken parameter of the request built in the loop (products.rs
\* lines 43-45 and 76-78)
page_token_param(page_cursor) ==
    IF page_cursor # <<>> THEN Some(page_cursor) ELSE None

\* one iteration of the loop of fetch_all_dev_products and of
\* fetch_all_gamepasses, the page being the deserialized answer
fetch_iteration(f, page) ==
    LET g == [f EXCEPT !.products = @ \o page.items]
    IN  IF IsSome(page.next)
        THEN [g EXCEPT !.page_cursor = Unwrap(page.next)]
        ELSE [g EXCEPT !.pc = "done", !.result = Some(g.products)]

\* the frame of a fetch at its first iteration
FetchStart(kind) ==
    [pc          |-> "loop",
     kind        |-> kind,
     page_cursor |-> <<>>,      \* String::default()
     products    |-> <<>>,
     result      |-> None,      \* Some(items) once Ok(items) is returned
     requests    |-> <<>>,      \* the pageToken parameter of each request sent
     cursors     |-> <<>>]      \* the next-cursor of each page received

InitFetch ==
    /\ server \in Listings
    /\ fetch \in {FetchStart(k) : k \in Kinds}
    /\ TransportOff /\ DiffOff /\ DownloadOff /\ UploadOff /\ CallOff

FetchPage(kind) ==
    /\ fetch.pc = "loop"
    /\ fetch.kind = kind
    /\ Len(fetch.requests) < MaxFetchRequests
    /\ LET token == page_token_param(fetch.page_cursor)
           page  == ServerPage(server, token)
       IN  fetch' = [fetch_iteration(fetch, page) EXCEPT
                        !.requests = Append(@, token),
                        !.cursors = Append(@, page.next)]
    /\ UNCHANGED <<server, tvars, dcase, dl, up, fcall>>

\* fetch_all_dev_products: one request and the page it returns
FetchDevProductsPage == FetchPage("DevProduct")

\* fetch_all_gamepasses: one request and the page it returns
FetchGamepassesPage == FetchPage("GamePass")

\* req.send().await?.json().await? fails: the fetch returns the error and
\* nothing of what it had accumulated
FetchFails ==
    /\ fetch.pc = "loop"
    /\ fetch' = [fetch EXCEPT !.pc = "failed"]
    /\ UNCHANGED <<server, tvars, dcase, dl, up, fcall>>

NextFetch == FetchDevProductsPage \/ FetchGamepassesPage \/ FetchFails

SpecFetch == InitFetch /\ [][NextFetch]_vars

(***************************************************************************)
(* Claims about the paginated fetcher (SpecFetch)                          *)
(***************************************************************************)
RECURSIVE ItemsOfPages(_, _)
ItemsOfPages(pages, k) ==
    IF k = 0 THEN <<>> ELSE ItemsOfPages(pages, k - 1) \o pages[k].items

\* C4 as stated: the requests of a fetch walk the chain in order, one
\* request per page, so after k requests the fetch holds the items of the
\* first k pages, each once; it stops exactly when the page without a
\* next-cursor (the last of the chain) has been received, and then returns
\* the items of all pages in page order.
C4_Claim_ChainWalkedInOrder ==
    fetch.pc \in {"loop", "done"} =>
        LET k == Len(fetch.requests)
        IN  /\ k <= Len(server)
            /\ fetch.products = ItemsOfPages(server, k)
            /\ (fetch.pc = "done") = (k = Len(server))
            /\ fetch.pc = "done"
                  => fetch.result = Some(ItemsOfPages(server, Len(server)))

\* C5 as stated: the first request carries no cursor parameter and every
\* later request carries exactly the cursor string the preceding page
\* returned, whatever that string is.
C5_Claim_CursorVerbatim ==
    fetch.pc \in {"loop", "done"} =>
        \A i \in 1..Len(fetch.requests) :
            fetch.requests[i] = IF i = 1 THEN None ELSE fetch.cursors[i - 1]

(***************************************************************************)
(* Catalog model: sync/products.rs                                         *)
(***************************************************************************)
\* U+1F4B2, the character of the built-in discount template
EMOJI == "U+1F4B2"

\* Product::has_discount
has_discount_any(p) == IsSome(p.discount)

has_discount(p) == IsSome(p.discount) /\ Unwrap(p.discount) > 0

\* The f64 factor 1.0 - (discount as f64 / 100.0) is not (100 - d) / 100
\* but the double next to it. F64FactorError[d], for d in 1..99, is the
\* difference (100 - d)/100 - factor in units of 2^-51 / 100, as IEEE 754
\* division and subtraction (round to nearest, ties to even) give it.
F64FactorError ==
    <<  2,   4,   6,   8,  10,  12,  14,  -9,  -7,  -5,
       -3,  -1,   1,   3,   5,   7,   9, -14, -12, -10,
       -8,  -6,  -4,  -2,   0,   2,   4,   6,   8,  10,
       12,  14,  16,  18,  -5,  -3,  -1,   1,   3,   5,
      -18, -16, -14, -12, -10,  -8,  -6,  -4,  -2,   0,
        2,   4,   6,   8,  10,  12, -11,  -9,  -7,  -5,
       -3,  -1,   1,   3,   5,   7,   9,  11, -12, -10,
       -8,  -6,  -4,  -2,   0,   2,   4,   6,   8,  10,
       12, -11,  -9,  -7,  -5,  -3,  -1,   1,   3,   5,
        7,   9,  11, -12, -10,  -8,  -6,  -4,  -2>>

RECURSIVE Log2Floor(_)
Log2Floor(n) == IF n < 2 THEN 0 ELSE 1 + Log2Floor(n \div 2)

RECURSIVE Pow2(_)
Pow2(k) == IF k = 0 THEN 1 ELSE 2 * Pow2(k - 1)

\* (price as f64 * (1.0 - (discount as f64 / 100.0))).floor() as u64 for a
\* price in 0 .. 300000 and a discount in 1 .. 255. The exact product of the
\* price and the double factor lies below an integer q = price * (100 - d) /
\* 100 when the factor lies below (100 - d) / 100; the f64 product then
\* rounds up to q only if it is within half the spacing of the doubles below
\* q, and floor gives q - 1 otherwise. A factor below zero (d > 100) gives a
\* negative product, which `as u64` saturates to 0.
F64DiscountedFloor(price, d) ==
    IF d >= 100 THEN 0
    ELSE LET q == (price * (100 - d)) \div 100
             r == (price * (100 - d)) % 100
             e == F64FactorError[d]
             k == Log2Floor(q)
             below == IF q = Pow2(k) THEN 2 * price * e > 25 * Pow2(k)
                      ELSE price * e > 25 * Pow2(k)
         IN  IF r = 0 /\ q > 0 /\ e > 0 /\ below THEN q - 1 ELSE q

\* Product::get_price (prices of the model are not negative: a negative
\* price without discount would wrap in `as u64`)
get_price(p) ==
    IF has_discount(p)
    THEN F64DiscountedFloor(p.price, Unwrap(p.discount))
    ELSE p.price

\* Product::get_title
get_title(p) ==
    IF has_discount(p) THEN p.name
    ELSE IF IsSome(p.prefix) THEN Unwrap(p.prefix) \o <<" ">> \o p.name
    ELSE p.name

\* dyn_fmt's str::format(args) on templates whose braces are "{}" slots or
\* the escapes "{{" and "}}": each slot takes the next argument, a slot
\* without an argument left gives nothing
RECURSIVE DynFormat(_, _)
DynFormat(t, args) ==
    IF t = <<>> THEN <<>>
    ELSE IF Len(t) >= 2 /\ t[1] = "{" /\ t[2] = "}"
    THEN (IF args = <<>> THEN <<>> ELSE Head(args))
         \o DynFormat(SubSeq(t, 3, Len(t)), IF args = <<>> THEN <<>> ELSE Tail(args))
    ELSE IF Len(t) >= 2 /\ t[1] \in {"{", "}"} /\ t[2] = t[1]
    THEN <<t[1]>> \o DynFormat(SubSeq(t, 3, Len(t)), args)
    ELSE <<Head(t)>> \o DynFormat(Tail(t), args)

\* the title Product::diff compares with the remote name (products.rs lines
\* 211-219); metadata is an Option<Metadata>
diff_title_plain(self, metadata) == get_title(self)

diff_title(self, metadata) ==
    IF IsSome(metadata)
       /\ IsSome(self.discount)
       /\ IsSome(Unwrap(metadata).discount_prefix)
    THEN DynFormat(Unwrap(Unwrap(metadata).discount_prefix),
                   <<ToDecimal(Unwrap(self.discount))>>)
         \o <<" ">> \o get_title(self)
    ELSE get_title(self)

\* the macro check_diff!: one entry of the field list
check_diff(field, old, new) ==
    [tag   |-> IF old # new THEN "Changed" ELSE "Unchanged",
     field |-> field,
     old   |-> old,
     new   |-> new]

\* diffs.iter().any(|d| matches!(d, DiffChange::Changed(_)))
has_diffs(diffs) == \E i \in DOMAIN diffs : diffs[i].tag = "Changed"

\* the field list Product::diff builds (products.rs lines 221-241); the
\* remote description is unwrapped, so other.description is Some
diff_fields_price_last(self, other, metadata) ==
    <<check_diff("Title", other.name, diff_title(self, metadata)),
      check_diff("Description", Unwrap(other.description),
                 UnwrapOr(self.description, <<>>)),
      check_diff("RegionalPricing", UnwrapOr(other.regional_pricing, FALSE),
                 UnwrapOr(self.regional_pricing, FALSE)),
      check_diff("Active", other.active, self.active),
      check_diff("Price", other.price, get_price(self))>>

diff_fields(self, other, metadata) ==
    <<check_diff("Title", other.name, diff_title(self, metadata)),
      check_diff("Description", Unwrap(other.description),
                 UnwrapOr(self.description, <<>>)),
      check_diff("Price", other.price, get_price(self)),
      check_diff("RegionalPricing", UnwrapOr(other.regional_pricing, FALSE),
                 UnwrapOr(self.regional_pricing, FALSE)),
      check_diff("Active", other.active, self.active)>>

\* Product::diff: Option<ProductDiffs>
diff(self, other, metadata) ==
    LET diffs == diff_fields(self, other, metadata)
    IN  IF has_diffs(diffs)
        THEN Some([name  |-> self.name,
                   id    |-> UnwrapOr(self.id, 0),
                   diffs |-> diffs])
        ELSE None

(***************************************************************************)
(* SpecDiff: one call of Product::diff on a local product, a remote        *)
(* product (as From<&GamePass> / From<&DevProduct> build it) and the       *)
(* metadata, drawn from the sets below.                                    *)
(***************************************************************************)
VIP == <<"V","I","P">>

NewTag == <<"[","N","E","W","]">>

\* the built-in template of apply_discount_prefix, also what `init` writes
\* (without the trailing space)
DefaultTemplate == <<EMOJI,"{","}","%"," ","O","F","F",EMOJI>>

\* the template filled with the discount d
FilledTemplate(d) == <<EMOJI>> \o ToDecimal(d) \o <<"%"," ","O","F","F",EMOJI>>

MkProduct(id, name, prefix, description, active, discount, price, rp) ==
    [id |-> id, name |-> name, prefix |-> prefix, description |-> description,
     active |-> active, discount |-> discount, price |-> price,
     regional_pricing |-> rp]

MkMetadata(discount_prefix, name_filters) ==
    [discount_prefix |-> discount_prefix, name_filters |-> name_filters]

DiffLocals ==
    {MkProduct(Some(7), VIP, prefix, description, active, discount, price, rp) :
        prefix \in {None, Some(NewTag)},
        description \in {None, Some(<<"d">>)},
        active \in BOOLEAN,
        discount \in {None, Some(0), Some(20)},
        price \in {90, 1000},
        rp \in {None, Some(FALSE), Some(TRUE)}}

DiffRemoteNames ==
    {VIP, NewTag \o <<" ">> \o VIP,
     FilledTemplate(20) \o <<" ">> \o VIP,
     FilledTemplate(0) \o <<" ">> \o VIP,
     FilledTemplate(0) \o <<" ">> \o NewTag \o <<" ">> \o VIP}

DiffRemotes ==
    {MkProduct(Some(7), name, None, Some(description), active, None, price, rp) :
        name \in DiffRemoteNames,
        description \in {<<>>, <<"d">>},
        active \in BOOLEAN,
        price \in {90, 800, 1000},
        rp \in {None, Some(TRUE)}}

DiffMetadatas ==
    {None, Some(MkMetadata(None, None)), Some(MkMetadata(Some(DefaultTemplate), None))}

InitDiff ==
    /\ dcase \in {[pc |-> "call", self |-> l, other |-> r, metadata |-> m,
                   result |-> None] :
                     l \in DiffLocals, r \in DiffRemotes, m \in DiffMetadatas}
    /\ TransportOff /\ FetchOff /\ DownloadOff /\ UploadOff /\ CallOff

\* local_product.diff(&remote_product, metadata)
Diff ==
    /\ dcase.pc = "call"
    /\ dcase' = [dcase EXCEPT
                    !.pc = "done",
                    !.result = diff(dcase.self, dcase.other, dcase.metadata)]
    /\ UNCHANGED <<tvars, fvars, dl, up, fcall>>

NextDiff == Diff

SpecDiff == InitDiff /\ [][NextDiff]_vars

(***************************************************************************)
(* Claims about the diff (SpecDiff)                                        *)
(***************************************************************************)
FieldOrder == <<"Title", "Description", "Price", "RegionalPricing", "Active">>

\* the local effective value and the remote value of a field
LocalEffective(field, l, m) ==
    CASE field = "Title" -> diff_title(l, m)
      [] field = "Description" -> UnwrapOr(l.description, <<>>)
      [] field = "Price" ->
            IF IsSome(l.discount) /\ Unwrap(l.discount) > 0
            THEN F64DiscountedFloor(l.price, Unwrap(l.discount)) ELSE l.price
      [] field = "RegionalPricing" -> UnwrapOr(l.regional_pricing, FALSE)
      [] field = "Active" -> l.active

RemoteValue(field, r) ==
    CASE field = "Title" -> r.name
      [] field = "Description" -> Unwrap(r.description)
      [] field = "Price" -> r.price
      [] field = "RegionalPricing" -> UnwrapOr(r.regional_pricing, FALSE)
      [] field = "Active" -> r.active

DifferingFields(l, r, m) ==
    {i \in 1..5 : LocalEffective(FieldOrder[i], l, m) # RemoteValue(FieldOrder[i], r)}

\* C6: diff returns None exactly when no field's local effective value
\* differs from the remote value; otherwise its field list has the five
\* fields in the order title, description, price, regional-pricing, active,
\* each tagged changed exactly when its two values differ (so a pair that
\* differs in one field has one changed entry), and carries the local name
\* and id. The effective title is the one diff computes (see C7).
C6_DiffFieldsAndNone ==
    dcase.pc = "done" =>
        LET differing == DifferingFields(dcase.self, dcase.other, dcase.metadata)
            res == dcase.result
        IN  /\ IsNone(res) = (differing = {})
            /\ IsSome(res) =>
                 /\ Len(Unwrap(res).diffs) = 5
                 /\ \A i \in 1..5 :
                      /\ Unwrap(res).diffs[i].field = FieldOrder[i]
                      /\ (Unwrap(res).diffs[i].tag = "Changed") = (i \in differing)
                      /\ Unwrap(res).diffs[i].tag \in {"Changed", "Unchanged"}
                 /\ Unwrap(res).name = dcase.self.name
                 /\ Unwrap(res).id = Unwrap(dcase.self.id)

\* a pair that differs in the price alone, diffed: one changed entry, the
\* third
C6_Witness ==
    /\ dcase.pc = "done"
    /\ DifferingFields(dcase.self, dcase.other, dcase.metadata) = {3}
    /\ IsSome(dcase.result)
    /\ {i \in 1..5 : Unwrap(dcase.result).diffs[i].tag = "Changed"} = {3}

\* the title a finished diff compared with the remote name: the new value
\* of its title entry, which is the remote name when diff returned None
\* (no field differs, so the title does not either)
ComparedTitle ==
    IF IsSome(dcase.result) THEN Unwrap(dcase.result).diffs[1].new
    ELSE dcase.other.name

\* the effective title as the specification gives it
SpecTitle(l) ==
    IF IsSome(l.discount) /\ Unwrap(l.discount) > 0 THEN l.name
    ELSE IF IsSome(l.prefix) THEN Unwrap(l.prefix) \o <<" ">> \o l.name
    ELSE l.name

\* C7 as stated: the title diff compares with the remote name is the raw
\* name under an active discount, else prefix and name, else the name; the
\* discount-prefix template is never applied.
C7_Original_TemplateNeverApplied ==
    dcase.pc = "done" => ComparedTitle = SpecTitle(dcase.self)

\* C7 amended: that title is the raw name under an active discount, else
\* prefix and name when a prefix is set, else the name; and diff puts the
\* discount-prefix template filled with the discount, and a space, before
\* it whenever the metadata carries a template and the product has a
\* discount value (0 included); without a template or without a discount
\* value the template is not applied.
C7_TitleWithTemplate ==
    dcase.pc = "done" =>
        LET l == dcase.self
            m == dcase.metadata
        IN  ComparedTitle =
              IF IsSome(l.discount) /\ IsSome(m)
                 /\ Unwrap(m).discount_prefix = Some(DefaultTemplate)
              THEN FilledTemplate(Unwrap(l.discount)) \o <<" ">> \o SpecTitle(l)
              ELSE SpecTitle(l)

\* a diffed product with discount 20 under a metadata with the template:
\* the compared title starts with the filled template
C7_Witness ==
    /\ dcase.pc = "done"
    /\ dcase.self.discount = Some(20)
    /\ dcase.metadata = Some(MkMetadata(Some(DefaultTemplate), None))
    /\ IsSome(dcase.result)
    /\ Unwrap(dcase.result).diffs[1].new = FilledTemplate(20) \o <<" ">> \o VIP

(***************************************************************************)
(* Download: sync/download.rs                                              *)
(***************************************************************************)
MaxRemote == 2

\* x.id.map(|id| id as i64).unwrap_or(-1)
IdKey(id) == IF IsSome(id) THEN Unwrap(id) ELSE -1

\* the keys of the entries that `find` can yield for the remote record
Matching(coll, product) ==
    {k \in DOMAIN coll : IdKey(coll[k].id) = IdKey(product.id)}

\* HashMap::insert
Insert(coll, key, product) ==
    [k \in DOMAIN coll \cup {key} |-> IF k = key THEN product ELSE coll[k]]

Entry(key, product) == [key |-> key, product |-> product]

\* the description of the merged product: the struct literal, then the
\* censorship guard
merged_description(product, existing, overwrite) ==
    LET built == IF ~overwrite /\ IsSome(existing)
                 THEN Unwrap(existing).product.description
                 ELSE product.description
    IN  IF ~overwrite /\ IsSome(existing) /\ IsSome(built)
                      /\ is_censored(Unwrap(built))
        THEN Unwrap(existing).product.description
        ELSE built

\* the regional-pricing flag of the merged product: the struct literal, then
\* Some(false) becomes None
merged_regional_pricing_kept(product, existing, overwrite) ==
    IF IsSome(existing) /\ ~overwrite
    THEN Unwrap(existing).product.regional_pricing
    ELSE product.regional_pricing

merged_regional_pricing(product, existing, overwrite) ==
    LET built == IF IsSome(existing) /\ ~overwrite
                 THEN Unwrap(existing).product.regional_pricing
                 ELSE product.regional_pricing
    IN  IF IsSome(built) /\ ~Unwrap(built) THEN None ELSE built

\* an active flag merged like the price: the local one without overwrite
merged_active_kept(product, existing, overwrite) ==
    IF IsSome(existing) /\ ~overwrite
    THEN Unwrap(existing).product.active
    ELSE product.active

\* active: product.active (download.rs line 84)
merged_active(product, existing, overwrite) == product.active

\* the product the closure inserts for the remote record `product`
merge_product(product, existing, overwrite, filters) ==
    [id |-> product.id,
     name |-> IF ~overwrite /\ IsSome(existing)
              THEN canonical_name(Unwrap(existing).product.name, filters)
              ELSE canonical_name(product.name, filters),
     prefix |-> IF ~overwrite /\ IsSome(existing)
                THEN Unwrap(existing).product.prefix
                ELSE None,
     description |-> merged_description(product, existing, overwrite),
     active |-> merged_active(product, existing, overwrite),
     discount |-> IF IsSome(existing) /\ has_discount(Unwrap(existing).product)
                  THEN Unwrap(existing).product.discount
                  ELSE None,
     price |-> IF IsSome(existing) /\ ~overwrite
               THEN Unwrap(existing).product.price
               ELSE product.price,
     regional_pricing |-> merged_regional_pricing(product, existing, overwrite)]

\* the key the closure inserts under
merge_key(product, existing, filters) ==
    IF IsNone(existing)
    THEN format_name(canonical_name(product.name, filters))
    ELSE Unwrap(existing).key

Collection(catalog, kind) ==
    IF kind = "GamePass" THEN catalog.gamepasses ELSE catalog.products

WithCollection(catalog, kind, coll) ==
    IF kind = "GamePass" THEN [catalog EXCEPT !.gamepasses = coll]
    ELSE [catalog EXCEPT !.products = coll]

(***************************************************************************)
(* The download run: the local catalog as read from products.toml, the     *)
(* remote listing as fetched, then the merge loop and the save.            *)
(***************************************************************************)
Gold == <<"G","o","l","d">>

TaggedVIP == NewTag \o <<" ">> \o VIP

DiscountedVIP == FilledTemplate(20) \o <<" ">> \o VIP

KeyVip == <<"v","i","p">>

KeyGold == <<"g","o","l","d">>

BracketFilter == Lazy(<<"[">>, <<"]">>)

\* products.toml is written by hand: an entry may lack an id, carry any
\* name under any key, and two entries may carry the same id
LocalPlain(id) == MkProduct(id, VIP, None, None, TRUE, None, 100, None)

LocalRich(id) ==
    MkProduct(id, TaggedVIP, Some(NewTag), Some(<<"d","1">>), FALSE, Some(20),
              200, Some(TRUE))

LocalZero(id) ==
    MkProduct(id, Gold, None, Some(<<"#","#">>), TRUE, Some(0), 100, Some(FALSE))

LocalIds == {None, Some(1), Some(2)}

MapOf(entries) == [k \in {e.key : e \in entries} |->
                      (CHOOSE e \in entries : e.key = k).product]

LocalGamepasses ==
    {MapOf(a \cup b) :
        a \in {{}} \cup {{Entry(KeyVip, p)} :
                  p \in {LocalPlain(id) : id \in LocalIds}
                        \cup {LocalRich(id) : id \in LocalIds}
                        \cup {LocalZero(id) : id \in LocalIds}},
        b \in {{}} \cup {{Entry(KeyGold, LocalZero(id))} : id \in LocalIds}}

LocalProducts == {MapOf({}), MapOf({Entry(KeyVip, LocalRich(Some(1)))})}

\* what the conversions of api/model.rs yield: an id, a description, no
\* prefix and no discount
RemoteShapes(id) ==
    {MkProduct(Some(id), TaggedVIP, None, Some(<<"d","2">>), TRUE, None, 300, Some(TRUE)),
     MkProduct(Some(id), TaggedVIP, None, Some(<<"#","#">>), FALSE, None, 300, Some(FALSE)),
     MkProduct(Some(id), Gold, None, Some(<<>>), TRUE, None, 0, None),
     MkProduct(Some(id), DiscountedVIP, None, Some(<<"d","2">>), FALSE, None, 80, Some(FALSE))}

RemoteRecords ==
    {[kind |-> "GamePass", product |-> p] : p \in RemoteShapes(1) \cup RemoteShapes(2)}
    \cup {[kind |-> "DevProduct", product |-> p] :
             p \in {q \in RemoteShapes(1) : q.name = TaggedVIP}}

\* the platform gives every product of a kind its own id
DistinctIds(list) ==
    \A i, j \in DOMAIN list :
        (i # j /\ list[i].kind = list[j].kind) => list[i].product.id # list[j].product.id

RemoteListings ==
    UNION {{l \in [1..n -> RemoteRecords] : DistinctIds(l)} : n \in 0..MaxRemote}

InitDownload ==
    /\ \E overwrite \in BOOLEAN,
          filters \in {None, Some(<<BracketFilter>>)},
          gamepasses \in LocalGamepasses,
          products \in LocalProducts,
          remote \in RemoteListings :
            LET catalog == [gamepasses |-> gamepasses, products |-> products]
            IN  dl = [pc |-> "merge", overwrite |-> overwrite,
                      filters |-> filters, before |-> catalog,
                      local |-> catalog, remote |-> remote, i |-> 1,
                      log |-> <<>>, disk |-> None]
    /\ TransportOff /\ FetchOff /\ DiffOff /\ UploadOff /\ CallOff

\* one turn of remote_product_data.iter().for_each(..)
MergeRecord ==
    /\ dl.pc = "merge"
    /\ dl.i <= Len(dl.remote)
    /\ LET kind == dl.remote[dl.i].kind
           product == dl.remote[dl.i].product
           coll == Collection(dl.local, kind)
           found == Matching(coll, product)
       IN  \E existing \in IF found = {} THEN {None}
                           ELSE {Some(Entry(k, coll[k])) : k \in found} :
             LET merged == merge_product(product, existing, dl.overwrite, dl.filters)
                 key == merge_key(product, existing, dl.filters)
             IN  dl' = [dl EXCEPT
                          !.local = WithCollection(dl.local, kind,
                                                   Insert(coll, key, merged)),
                          !.i = dl.i + 1,
                          !.log = Append(dl.log,
                                         [kind |-> kind, remote |-> product,
                                          existing |-> existing, key |-> key,
                                          merged |-> merged])]
    /\ UNCHANGED <<api_token, treq, tlog, server, fetch, dcase, up, fcall>>

\* local_products_data.save_products() after the loop
SaveProducts ==
    /\ dl.pc = "merge"
    /\ dl.i > Len(dl.remote)
    /\ dl' = [dl EXCEPT !.pc = "saved", !.disk = Some(dl.local)]
    /\ UNCHANGED <<api_token, treq, tlog, server, fetch, dcase, up, fcall>>

NextDownload == MergeRecord \/ SaveProducts

SpecDownload == InitDownload /\ [][NextDownload]_vars

(***************************************************************************)
(* Download merge: claims                                                  *)
(***************************************************************************)
\* the turns of the merge loop that found a local product with the id of the
\* remote record
MatchedTurns == {n \in DOMAIN dl.log : IsSome(dl.log[n].existing)}

ExistingOf(n) == Unwrap(dl.log[n].existing).product

CensoredRemote(n) ==
    /\ IsSome(dl.log[n].remote.description)
    /\ is_censored(Unwrap(dl.log[n].remote.description))

\* a flag as the catalog stores it: false is stored as absent
StoredFlag(rp) == IF IsSome(rp) /\ ~Unwrap(rp) THEN None ELSE rp

\* C8: a download merge never replaces the description of an id-matched
\* local product with a censored description; the old description is kept
\* whatever the overwrite flag
C8_CensoredNeverAdopted ==
    dl.pc # "off" =>
        \A n \in MatchedTurns :
            CensoredRemote(n) =>
                dl.log[n].merged.description = ExistingOf(n).description

\* C9: with overwrite=true a matched remote record yields a product with the
\* remote price, regional-pricing flag (as stored) and description (the old
\* one when the remote one is censored), the canonicalized remote name and
\* no prefix
C9_OverwriteAdoptsRemote ==
    (dl.pc # "off" /\ dl.overwrite) =>
        \A n \in MatchedTurns :
            LET turn == dl.log[n]
            IN  /\ turn.merged.price = turn.remote.price
                /\ turn.merged.regional_pricing = StoredFlag(turn.remote.regional_pricing)
                /\ turn.merged.description =
                       IF CensoredRemote(n) THEN ExistingOf(n).description
                       ELSE turn.remote.description
                /\ turn.merged.name = canonical_name(turn.remote.name, dl.filters)
                /\ turn.merged.prefix = None

\* what every matched turn of a merge with overwrite=false leaves alone
\* whatever the flag holds: prefix, description, price and the name
KeepsLocalFields(n) ==
    LET turn == dl.log[n]
    IN  /\ ExistingOf(n) = Collection(dl.before, turn.kind)[turn.key]
        /\ turn.merged.prefix = ExistingOf(n).prefix
        /\ turn.merged.description = ExistingOf(n).description
        /\ turn.merged.price = ExistingOf(n).price
        /\ turn.merged.name = canonical_name(ExistingOf(n).name, dl.filters)
        /\ n = Len(dl.log) => Collection(dl.local, turn.kind)[turn.key] = turn.merged

\* C10 as stated: with overwrite=false a matched record leaves prefix,
\* description, price and regional-pricing equal to the local values held
\* before the merge, and the name equal to the canonicalized local name
C10_Original_LocalValuesKept ==
    (dl.pc # "off" /\ ~dl.overwrite) =>
        \A n \in MatchedTurns :
            /\ KeepsLocalFields(n)
            /\ dl.log[n].merged.regional_pricing = ExistingOf(n).regional_pricing

\* C10, amended: the same, except that a local regional-pricing flag of
\* false comes out of the merge as absent
C10_LocalValuesKeptFalseAbsent ==
    (dl.pc # "off" /\ ~dl.overwrite) =>
        \A n \in MatchedTurns :
            /\ KeepsLocalFields(n)
            /\ dl.log[n].merged.regional_pricing =
                   StoredFlag(ExistingOf(n).regional_pricing)

\* a merge with overwrite=false has matched a record whose price,
\* description, flag and name all differ from those of the local product,
\* which holds a prefix and a flag of false
C10_Witness ==
    /\ dl.pc = "saved"
    /\ ~dl.overwrite
    /\ \E n \in MatchedTurns :
         /\ ExistingOf(n).regional_pricing = Some(FALSE)
         /\ dl.log[n].remote.regional_pricing = Some(TRUE)
         /\ dl.log[n].remote.price # ExistingOf(n).price
         /\ dl.log[n].remote.description # ExistingOf(n).description
         /\ dl.log[n].remote.name # ExistingOf(n).name
    /\ \E n \in MatchedTurns :
         /\ IsSome(ExistingOf(n).prefix)
         /\ ExistingOf(n).name # canonical_name(ExistingOf(n).name, dl.filters)

\* the products of a catalog whose flag is stored as false
StoredFalse(catalog, kind) ==
    {k \in DOMAIN Collection(catalog, kind) :
        Collection(catalog, kind)[k].regional_pricing = Some(FALSE)}

\* the keys the merge loop has inserted under, per kind
WrittenKeys(kind) ==
    {dl.log[n].key : n \in {m \in DOMAIN dl.log : dl.log[m].kind = kind}}

\* C11: after a download merge no product of the catalog, in either
\* collection, has regional_pricing = Some(false)
C11_NoFalseInCatalog ==
    dl.pc = "saved" =>
        \A kind \in Kinds : StoredFalse(Unwrap(dl.disk), kind) = {}

\* what the merge does normalise: no product it writes, for a matched or for
\* a new record, has regional_pricing = Some(false); an entry of the saved
\* catalog that still has it is a local entry the merge did not write
NoFalseInMergedProducts ==
    /\ dl.pc # "off" =>
         \A n \in DOMAIN dl.log :
            dl.log[n].merged.regional_pricing # Some(FALSE)
    /\ dl.pc = "saved" =>
         \A kind \in Kinds :
            \A k \in StoredFalse(Unwrap(dl.disk), kind) :
               /\ k \notin WrittenKeys(kind)
               /\ k \in DOMAIN Collection(dl.before, kind)
               /\ Collection(Unwrap(dl.disk), kind)[k] = Collection(dl.before, kind)[k]

\* a saved merge that wrote a new record whose remote flag was false and a
\* matched one whose local flag was false
FalseNormalisedInMergedProducts ==
    /\ dl.pc = "saved"
    /\ \E n \in DOMAIN dl.log :
         /\ IsNone(dl.log[n].existing)
         /\ dl.log[n].remote.regional_pricing = Some(FALSE)
         /\ Collection(Unwrap(dl.disk), dl.log[n].kind)[dl.log[n].key].regional_pricing = None
    /\ \E n \in MatchedTurns :
         /\ ExistingOf(n).regional_pricing = Some(FALSE)
         /\ ~dl.overwrite

\* the keys under which the catalog as read holds a product of the kind
\* with the remote id `id`
KeysBefore(kind, id) ==
    {k \in DOMAIN Collection(dl.before, kind) :
        Collection(dl.before, kind)[k].id = id}

\* every turn so far chose its key by the rule: the key of the entry found,
\* else the slug of the canonicalized remote name
KeyRuleFollowed ==
    \A n \in DOMAIN dl.log :
        LET turn == dl.log[n]
        IN  turn.key = IF IsSome(turn.existing) THEN Unwrap(turn.existing).key
                       ELSE format_name(canonical_name(turn.remote.name, dl.filters))

\* C12: a matched remote record is written back under the key of the entry
\* it matched, an unmatched one under slugify(canonicalize(remote name)),
\* and no product that the catalog as read identified by a remote id is
\* found under another key afterwards
C12_KeysKeptOrSlugged ==
    dl.pc # "off" =>
        /\ KeyRuleFollowed
        /\ \A kind \in Kinds :
              \A k \in DOMAIN Collection(dl.local, kind) :
                 LET id == Collection(dl.local, kind)[k].id
                 IN  (IsSome(id) /\ KeysBefore(kind, id) # {}) =>
                        k \in KeysBefore(kind, id)

\* C13: after a download merge every product of the catalog as read is
\* still present under its key, with the remote id it had (or still none)
C13_NoProductDeleted ==
    dl.pc # "off" =>
        \A kind \in Kinds :
            \A k \in DOMAIN Collection(dl.before, kind) :
                /\ k \in DOMAIN Collection(dl.local, kind)
                /\ Collection(dl.local, kind)[k].id = Collection(dl.before, kind)[k].id

\* C14: whatever the overwrite flag, the merged product has the discount of
\* the matched local product when that discount is greater than 0 and no
\* discount otherwise; the remote record gives none
C14_DiscountOnlyFromActiveLocal ==
    dl.pc # "off" =>
        \A n \in DOMAIN dl.log :
            dl.log[n].merged.discount =
                IF /\ n \in MatchedTurns
                   /\ IsSome(ExistingOf(n).discount)
                   /\ Unwrap(ExistingOf(n).discount) > 0
                THEN ExistingOf(n).discount
                ELSE None

\* a saved merge with overwrite set that matched a product with discount 20,
\* which kept it, and a product with discount 0, which lost it
C14_Witness ==
    /\ dl.pc = "saved"
    /\ dl.overwrite
    /\ \E n \in MatchedTurns :
         /\ ExistingOf(n).discount = Some(20)
         /\ Collection(Unwrap(dl.disk), dl.log[n].kind)[dl.log[n].key].discount = Some(20)
    /\ \E n \in MatchedTurns :
         /\ ExistingOf(n).discount = Some(0)
         /\ Collection(Unwrap(dl.disk), dl.log[n].kind)[dl.log[n].key].discount = None

(***************************************************************************)
(* Upload: sync/upload.rs, api/model.rs                                    *)
(***************************************************************************)
\* str::replace(from, to): every occurrence of `from`, left to right, none
\* overlapping
RECURSIVE StrReplace(_, _, _)
StrReplace(s, from, to) ==
    IF s = <<>> THEN <<>>
    ELSE IF MatchesAt(s, 1, from)
    THEN to \o StrReplace(SubSeq(s, Len(from) + 1, Len(s)), from, to)
    ELSE <<Head(s)>> \o StrReplace(Tail(s), from, to)

\* apply_discount_prefix(&mut product, prefix): the product afterwards
apply_discount_prefix(product, prefix) ==
    LET template == UnwrapOr(prefix, DefaultTemplate)
    IN  IF has_discount(product)
        THEN [product EXCEPT !.name =
                 StrReplace(template, <<"{", "}">>,
                            ToDecimal(UnwrapOr(product.discount, 0)))
                 \o <<" ">> \o product.name]
        ELSE product

\* ProductUpdateRequest::from(&Product)
update_request(p) ==
    [name |-> get_title(p),
     description |-> p.description,
     is_for_sale |-> Some(p.active),
     price |-> Some(get_price(p)),
     is_regional_pricing_enabled |-> p.regional_pricing,
     store_page_enabled |-> None]

\* every key taken for a create candidate
EmptyKeys_all(coll) == DOMAIN coll

\* the keys of the create candidates of a collection: gp.id.is_none()
EmptyKeys(coll) == {k \in DOMAIN coll : IsNone(coll[k].id)}

\* Uploader::has_empty_products
has_empty_products(catalog) ==
    EmptyKeys(catalog.gamepasses) # {} \/ EmptyKeys(catalog.products) # {}

\* the iteration orders a HashMap may give the keys in `keys`
RECURSIVE Orders(_)
Orders(keys) ==
    IF keys = {} THEN {<<>>}
    ELSE UNION {{<<k>> \o rest : rest \in Orders(keys \ {k})} : k \in keys}

\* the create calls of upload_empty in one of their possible orders: the
\* candidates of gamepasses, then those of products
CreateQueues(catalog) ==
    {[i \in DOMAIN g |-> [kind |-> "GamePass", key |-> g[i]]]
        \o [i \in DOMAIN d |-> [kind |-> "DevProduct", key |-> d[i]]] :
            g \in Orders(EmptyKeys(catalog.gamepasses)),
            d \in Orders(EmptyKeys(catalog.products))}

\* a lookup that falls back on the first fetched record
FindRemote_or_first(remote, id) ==
    LET hits == {i \in DOMAIN remote : Unwrap(remote[i].product.id) = id}
    IN  IF hits # {} THEN CHOOSE i \in hits : \A j \in hits : i <= j
        ELSE IF remote = <<>> THEN 0 ELSE 1

\* products.iter().find(..): the first fetched record whose id is `id`,
\* whatever its kind; 0 when there is none
FindRemote(remote, id) ==
    LET hits == {i \in DOMAIN remote : Unwrap(remote[i].product.id) = id}
    IN  IF hits = {} THEN 0 ELSE CHOOSE i \in hits : \A j \in hits : i <= j

\* the closure of filter_map for the local product stored under `key` of
\* the collection `of`: a diff tagged with the kind of the record found
product_diff(catalog, remote, of, key) ==
    LET local_product == Collection(catalog, of)[key]
        at == IF IsSome(local_product.id)
              THEN FindRemote(remote, Unwrap(local_product.id)) ELSE 0
        d == diff(local_product, remote[at].product, Some(catalog.metadata))
    IN  IF at = 0 \/ IsNone(d) THEN None
        ELSE Some([kind |-> remote[at].kind, diff |-> Unwrap(d),
                   of |-> of, key |-> key])

\* b.0.cmp(&a.0), then a.1.id.cmp(&b.1.id); ProductType orders GamePass
\* before DevProduct, so one-time products come first. The sort is stable
\* and all_local_products holds the gamepasses first.
\* an order with the passes first
KindRank_passes_first(kind) == IF kind = "GamePass" THEN 0 ELSE 1

KindRank(kind) == IF kind = "DevProduct" THEN 0 ELSE 1

DiffBefore(a, b) ==
    \/ KindRank(a.kind) < KindRank(b.kind)
    \/ /\ a.kind = b.kind
       /\ \/ a.diff.id < b.diff.id
          \/ a.diff.id = b.diff.id /\ a.of = "GamePass" /\ b.of = "DevProduct"

RECURSIVE SortDiffs(_)
SortDiffs(items) ==
    IF items = {} THEN <<>>
    ELSE LET first == CHOOSE a \in items : \A b \in items : ~DiffBefore(b, a)
         IN  <<first>> \o SortDiffs(items \ {first})

\* all_diffs of upload_modified
all_diffs(catalog, remote) ==
    SortDiffs({Unwrap(product_diff(catalog, remote, of, key)) :
                 <<of, key>> \in
                    {x \in ({"GamePass"} \X DOMAIN catalog.gamepasses)
                           \cup ({"DevProduct"} \X DOMAIN catalog.products) :
                        IsSome(product_diff(catalog, remote, x[1], x[2]))}})

\* (product_type, diff.id) of each diff
DiffPairs(diffs) == [i \in DOMAIN diffs |-> <<diffs[i].kind, diffs[i].diff.id>>]

\* values().find(|gp| gp.id == Some(id)): the keys it can yield
LocalWithId(catalog, kind, id) ==
    {k \in DOMAIN Collection(catalog, kind) : Collection(catalog, kind)[k].id = Some(id)}

(***************************************************************************)
(* The upload run. `up` holds the Uploader (local catalog, remote          *)
(* snapshot), the position in upload_empty / upload_modified, and what the *)
(* outside has seen: the prompts shown, the calls sent, the files written. *)
(***************************************************************************)
\* the id the platform gives the n-th product it creates for this catalog
FirstNewId == 10

\* the answers of the confirmation prompt
ConfirmStates == {"Confirmed", "Closed"}

(***************************************************************************)
(* DiffViewer (ui/diffs.rs): the viewer and its key handling. A diff is    *)
(* carried by its kind and id, the fields handle_event reads.              *)
(***************************************************************************)
\* (d.0, d.1.id)
PairOf(d) == <<d.kind, d.id>>

\* confs.contains(&pair)
Contains(confs, pair) == \E n \in DOMAIN confs : confs[n] = pair

\* DiffViewer::new().with_diffs(diffs)
NewViewer(diffs) ==
    [view |-> None, diffs |-> diffs, confs |-> <<>>, selected |-> 0,
     scroll |-> 0, should_quit |-> FALSE]

\* KeyCode::Char('q') | KeyCode::Char('Q') (lines 301-311)
on_q(v, shift) ==
    IF ~shift /\ IsSome(v.view)
    THEN [v EXCEPT !.view = None, !.scroll = 0]
    ELSE [v EXCEPT !.should_quit = TRUE]

\* KeyCode::Char('C') (lines 312-318)
on_C(v) ==
    IF Len(v.confs) = Len(v.diffs)
    THEN [v EXCEPT !.confs = <<>>]
    ELSE [v EXCEPT !.confs = [i \in DOMAIN v.diffs |-> PairOf(v.diffs[i])]]

\* KeyCode::Char('c') (lines 319-331); diffs.get(selected) is Some for the
\* indices the viewer reaches on a list that is not empty
on_c(v) ==
    IF v.selected + 1 \in DOMAIN v.diffs
    THEN LET pair == PairOf(v.diffs[v.selected + 1])
         IN  [v EXCEPT
                !.confs = IF Contains(v.confs, pair)
                          THEN SelectSeq(v.confs, LAMBDA c : c # pair)
                          ELSE Append(v.confs, pair),
                !.view = None]
    ELSE v

\* an Up that stops at the first entry
on_Up_stops(v) == IF v.selected > 0 THEN [v EXCEPT !.selected = @ - 1] ELSE v

\* KeyCode::Up (lines 332-338)
on_Up(v) ==
    IF v.selected > 0 THEN [v EXCEPT !.selected = @ - 1]
    ELSE [v EXCEPT !.selected = Len(v.diffs) - 1]

\* KeyCode::Down (lines 339-345)
on_Down(v) ==
    IF v.selected + 1 < Len(v.diffs) THEN [v EXCEPT !.selected = @ + 1]
    ELSE IF v.selected + 1 = Len(v.diffs) THEN [v EXCEPT !.selected = 0]
    ELSE v

\* KeyCode::Enter (lines 346-350)
on_Enter(v) ==
    IF v.selected + 1 \in DOMAIN v.diffs
    THEN [v EXCEPT !.view = Some(v.diffs[v.selected + 1])]
    ELSE v

\* DiffViewer::handle_event
handle_event(v, event) ==
    IF ~event.key \/ ~event.press THEN v
    ELSE IF event.code \in {"q", "Q"} THEN on_q(v, event.shift)
    ELSE IF event.code = "C" THEN on_C(v)
    ELSE IF event.code = "c" THEN on_c(v)
    ELSE IF event.code = "Up" THEN on_Up(v)
    ELSE IF event.code = "Down" THEN on_Down(v)
    ELSE IF event.code = "Enter" THEN on_Enter(v)
    ELSE v

\* the entries of the viewer for the diffs of upload_modified
ViewerEntries(diffs) ==
    [i \in DOMAIN diffs |-> [kind |-> diffs[i].kind, id |-> diffs[i].diff.id]]

\* the confirmation lists the viewer `v` can hold after the lists of `seen`:
\* Up and Down bring any entry under the selection, 'c' toggles it and 'C'
\* selects all or clears; the other keys leave the list alone
RECURSIVE ConfsReachable(_, _)
ConfsReachable(v, seen) ==
    LET next == seen
                \cup {on_C([v EXCEPT !.confs = c]).confs : c \in seen}
                \cup {on_c([v EXCEPT !.confs = c, !.selected = i - 1]).confs :
                         c \in seen, i \in DOMAIN v.diffs}
    IN  IF next = seen THEN seen ELSE ConfsReachable(v, next)

\* what DiffViewer::confirm_diffs can return for the diffs shown: the list
\* get_confs() holds when the operator quits
Selections(diffs) == ConfsReachable(NewViewer(ViewerEntries(diffs)), {<<>>})

Prompt(prompt, answer) == [prompt |-> prompt, answer |-> answer]

CreateCall(kind, key, request, id) ==
    [op |-> "create", kind |-> kind, key |-> key, id |-> id, request |-> request]

UpdateCall(kind, key, request, id, ok) ==
    [op |-> "update", kind |-> kind, key |-> key, id |-> Some(id),
     request |-> request, ok |-> ok]

\* save_products, then serialize_luau. fs::write has written products.toml
\* when save_products returns. serialize_luau returns at once without
\* metadata.luau_file; with it, File::create has emptied the Luau file when
\* it returns, and write_all has handed the text to the blocking pool of the
\* runtime: the file is dropped without a flush, and a thread of the pool
\* writes the text later (LuauWrite). `luau` is the Luau file as this run
\* left it: None while the run has not touched it, else the texts written
\* into it since it was last emptied, each named by the catalog it was made
\* from; `writes` the texts handed to the pool and not written yet.
Persisted(u) ==
    [u EXCEPT !.saves = u.saves + 1,
              !.disk = Some(u.local),
              !.exports = u.exports + 1,
              !.luau = IF IsSome(u.local.metadata.luau_file)
                       THEN Some(<<>>) ELSE u.luau,
              !.writes = IF IsSome(u.local.metadata.luau_file)
                         THEN Append(u.writes, u.local) ELSE u.writes]

\* a thread of the blocking pool writes one of the texts write_all handed
\* over, at offset 0 of the file as it is then. Each text has a thread of
\* its own, so two texts waiting are written in either order; the same text
\* written a second time changes nothing.
LuauWrite ==
    /\ up.pc # "off"
    /\ up.writes # <<>>
    /\ \E i \in DOMAIN up.writes :
         LET text == up.writes[i]
             file == Unwrap(up.luau)
         IN  up' = [up EXCEPT
                      !.luau = Some(IF file # <<>> /\ file[Len(file)] = text
                                    THEN file ELSE Append(file, text)),
                      !.writes = SubSeq(up.writes, 1, i - 1)
                                 \o SubSeq(up.writes, i + 1, Len(up.writes))]
    /\ UNCHANGED <<api_token, treq, tlog, server, fetch, dcase, dl, fcall>>

\* prompt_result != ConfirmState::Confirmed
create_declined_never(answer) == FALSE

create_declined(answer) == answer # "Confirmed"

\* apply == ConfirmState::Closed
sync_declined_never(apply) == FALSE

sync_declined(apply) == apply = "Closed"

\* where the update loop stands after the n-th of `total` calls: `?` leaves
\* it on an error, the last call ends it
after_update_ignoring_errors(ok, n, total) ==
    IF n = total THEN "finish" ELSE "updating"

after_update(ok, n, total) ==
    IF ~ok \/ n = total THEN "finish" ELSE "updating"

\* upload_empty up to the first create call (lines 46-58); `answer` is what
\* the prompt returns when it is shown
UploadEmptyBegin ==
    /\ up.pc = "upload_empty"
    /\ \E answer \in ConfirmStates, queue \in CreateQueues(up.local) :
         up' = IF ~has_empty_products(up.local)
               THEN [up EXCEPT !.pc = "upload_modified"]
               ELSE IF ~up.overwrite
               THEN [up EXCEPT
                       !.prompts = Append(up.prompts, Prompt("create", answer)),
                       !.pc = IF create_declined(answer) THEN "upload_modified"
                              ELSE "creating",
                       !.queue = IF create_declined(answer) THEN <<>> ELSE queue]
               ELSE [up EXCEPT !.pc = "creating", !.queue = queue]
    /\ UNCHANGED <<api_token, treq, tlog, server, fetch, dcase, dl, fcall>>

\* a prefix applied to the catalog's own entry
catalog_after_prefix_in_place(catalog, kind, key, prefixed) ==
    WithCollection(catalog, kind,
                   [Collection(catalog, kind) EXCEPT ![key] = prefixed])

\* the catalog after apply_discount_prefix has run on `let mut gamepass =
\* gamepass.clone()` (lines 100-105, 129-134) or on the clone of the entry
\* found (lines 256-275): the entry itself is not touched
catalog_after_prefix(catalog, kind, key, prefixed) == catalog

\* one turn of the two candidate loops (lines 96-153): the create call of the
\* next candidate, awaited; `ok` is whether the platform created the product
Create ==
    /\ up.pc = "creating"
    /\ Len(up.created) < Len(up.queue)
    /\ \E ok \in BOOLEAN :
         LET item == up.queue[Len(up.created) + 1]
             product == apply_discount_prefix(
                            Collection(up.local, item.kind)[item.key],
                            up.local.metadata.discount_prefix)
             id == IF ok THEN Some(FirstNewId + Len(up.earlier) + Len(up.calls)) ELSE None
         IN  up' = [up EXCEPT
                      !.local = catalog_after_prefix(@, item.kind, item.key, product),
                      !.calls = Append(up.calls,
                                       CreateCall(item.kind, item.key,
                                                  update_request(product), id)),
                      !.created = Append(up.created, id)]
    /\ UNCHANGED <<api_token, treq, tlog, server, fetch, dcase, dl, fcall>>

WriteBackNothing(catalog, queue, created) == catalog

\* the catalog with the ids of the successful creations written back
RECURSIVE WriteBack(_, _, _)
WriteBack(catalog, queue, created) ==
    IF queue = <<>> THEN catalog
    ELSE LET item == Head(queue)
             coll == Collection(catalog, item.kind)
             next == IF IsSome(Head(created))
                     THEN WithCollection(catalog, item.kind,
                              [coll EXCEPT ![item.key].id = Head(created)])
                     ELSE catalog
         IN  WriteBack(next, Tail(queue), Tail(created))

\* the end of upload_empty (lines 155-178): write the ids back, save, export
UploadEmptyFinish ==
    /\ up.pc = "creating"
    /\ Len(up.created) = Len(up.queue)
    /\ up' = [Persisted([up EXCEPT
                           !.local = WriteBack(up.local, up.queue, up.created)])
                EXCEPT !.pc = "upload_modified"]
    /\ UNCHANGED <<api_token, treq, tlog, server, fetch, dcase, dl, fcall>>

\* the record fetch_all_products gives for a product the platform made from,
\* or changed by, `request`: the form leaves the price out when it is 0
RecordOf(old, id, request) ==
    MkProduct(Some(id), request.name, None,
              Some(UnwrapOr(request.description, UnwrapOr(old.description, <<>>))),
              UnwrapOr(request.is_for_sale, old.active), None,
              IF UnwrapOr(request.price, 0) > 0 THEN Unwrap(request.price)
              ELSE old.price,
              IF IsSome(request.is_regional_pricing_enabled)
              THEN request.is_regional_pricing_enabled ELSE old.regional_pricing)

\* a product of the platform before it has any field
NoRecord == MkProduct(None, <<>>, None, None, FALSE, None, 0, None)

\* what the platform holds after the calls of a run, listed as
\* fetch_all_products lists it: the passes, then the one-time products
RECURSIVE PlatformAfter(_, _)
PlatformAfter(remote, calls) ==
    IF calls = <<>> THEN remote
    ELSE LET call == Head(calls)
             new == [kind |-> call.kind,
                     product |-> RecordOf(NoRecord, Unwrap(call.id), call.request)]
             passes == SelectSeq(remote, LAMBDA r : r.kind = "GamePass")
             others == SelectSeq(remote, LAMBDA r : r.kind # "GamePass")
             next ==
                IF call.op = "create"
                THEN IF IsNone(call.id) THEN remote
                     ELSE IF call.kind = "GamePass"
                     THEN passes \o <<new>> \o others
                     ELSE remote \o <<new>>
                ELSE IF ~call.ok THEN remote
                ELSE [i \in DOMAIN remote |->
                        IF remote[i].kind = call.kind
                           /\ remote[i].product.id = call.id
                        THEN [remote[i] EXCEPT !.product =
                                 RecordOf(@, Unwrap(call.id), call.request)]
                        ELSE remote[i]]
         IN  PlatformAfter(next, Tail(calls))

\* a snapshot fetched anew after the creation phase
Snapshot_refetched(u) == PlatformAfter(u.remote, u.calls)

\* self.remote_products: fetched once by Uploader::create, before
\* upload_empty, and not fetched again during the run
Snapshot(u) == u.remote

\* upload_modified up to the update loop (lines 182-253): build and sort the
\* diffs, have them confirmed. `selection` and `apply` are what the diff
\* viewer and the prompt return when they are shown.
UploadModifiedBegin ==
    /\ up.pc = "upload_modified"
    /\ LET diffs == all_diffs(up.local, Snapshot(up))
       IN  \E selection \in Selections(diffs), apply \in ConfirmStates :
             up' = IF Len(diffs) = 0
                   THEN [up EXCEPT !.pc = "finish", !.phase = "Ok"]
                   ELSE IF ~up.overwrite
                   THEN [up EXCEPT
                           !.diffs = diffs,
                           !.prompts = up.prompts
                                \o <<Prompt("diffs", selection), Prompt("sync", apply)>>,
                           !.confs = selection,
                           !.pc = IF sync_declined(apply) \/ Len(selection) = 0
                                  THEN "finish" ELSE "updating",
                           !.phase = IF sync_declined(apply) \/ Len(selection) = 0
                                     THEN "Ok" ELSE up.phase]
                   ELSE [up EXCEPT !.diffs = diffs, !.confs = DiffPairs(diffs),
                                   !.pc = "updating"]
    /\ UNCHANGED <<api_token, treq, tlog, server, fetch, dcase, dl, fcall>>

\* one turn of the update loop (lines 255-290): find the local product of the
\* next confirmed pair (unwrap panics when there is none), send its update;
\* an error ends the phase, the last success ends it too (lines 292-294)
Update ==
    /\ up.pc = "updating"
    /\ LET n == up.done + 1
           kind == up.confs[n][1]
           id == up.confs[n][2]
           found == LocalWithId(up.local, kind, id)
       IN  IF found = {}
           THEN up' = [up EXCEPT !.pc = "panicked"]
           ELSE \E key \in found, ok \in BOOLEAN :
                  LET local_product ==
                          apply_discount_prefix(
                              Collection(up.local, kind)[key],
                              up.local.metadata.discount_prefix)
                      call == UpdateCall(kind, key, update_request(local_product),
                                         id, ok)
                  IN  up' = [up EXCEPT
                               !.local = catalog_after_prefix(@, kind, key,
                                                              local_product),
                               !.calls = Append(up.calls, call),
                               !.done = IF ok THEN n ELSE up.done,
                               !.phase = IF ~ok THEN "Err"
                                         ELSE IF n = Len(up.confs) THEN "Ok"
                                         ELSE up.phase,
                               !.pc = after_update(ok, n, Len(up.confs))]
    /\ UNCHANGED <<api_token, treq, tlog, server, fetch, dcase, dl, fcall>>

\* Uploader::upload after run_upload (lines 327-337): save, export, return
\* the result of the phases
UploadFinish ==
    /\ up.pc = "finish"
    /\ up' = [Persisted(up) EXCEPT !.pc = "returned", !.result = Some(up.phase)]
    /\ UNCHANGED <<api_token, treq, tlog, server, fetch, dcase, dl, fcall>>

\* The catalogs and snapshots an upload starts from. A pass and a one-time
\* product may carry the same number as id; within a collection the ids are
\* those the platform gave, each to one product.
UpPlain(id) == MkProduct(id, VIP, None, Some(<<"d">>), TRUE, None, 100, None)

UpSale(id) == MkProduct(id, VIP, None, Some(<<"d">>), TRUE, Some(20), 100, None)

\* the record the platform holds after UpPlain, and after UpSale, was sent
RemotePlain(id) == UpPlain(Some(id))

RemoteSale(id) ==
    MkProduct(Some(id), DiscountedVIP, None, Some(<<"d">>), TRUE, None, 80, None)

LuauFile == <<"p", ".", "l", "u", "a", "u">>

UploadMetadatas ==
    {[discount_prefix |-> t, name_filters |-> None, luau_file |-> f] :
        t \in {None, Some(DefaultTemplate)}, f \in {None, Some(LuauFile)}}

UploadGamepasses ==
    {m \in {MapOf(a \cup b) :
              a \in {{}} \cup {{Entry(KeyVip, p)} :
                        p \in {UpPlain(id) : id \in LocalIds}
                              \cup {UpSale(id) : id \in LocalIds}},
              b \in {{}} \cup {{Entry(KeyGold, UpPlain(id))} : id \in LocalIds}} :
        \A j, k \in DOMAIN m : (j # k /\ IsSome(m[j].id)) => m[j].id # m[k].id}

UploadProducts ==
    {MapOf({})} \cup {MapOf({Entry(KeyVip, UpPlain(id))}) : id \in {None, Some(1), Some(3)}}

\* fetch_all_products: the passes, then the one-time products
RECURSIVE RemoteOfKind(_, _)
RemoteOfKind(kind, ids) ==
    IF ids = <<>> THEN {<<>>}
    ELSE {<<[kind |-> kind, product |-> p]>> \o rest :
            p \in {RemotePlain(Head(ids)), RemoteSale(Head(ids))},
            rest \in RemoteOfKind(kind, Tail(ids))}

UploadRemotes ==
    {g \o d :
        g \in UNION {RemoteOfKind("GamePass", ids) : ids \in {<<>>, <<1>>, <<2>>, <<1, 2>>}},
        d \in UNION {RemoteOfKind("DevProduct", ids) : ids \in {<<>>, <<1>>, <<3>>}}}

\* Uploader::create has fetched; upload_empty is about to run
InitUpload ==
    /\ \E overwrite \in BOOLEAN, metadata \in UploadMetadatas,
          gamepasses \in UploadGamepasses, products \in UploadProducts,
          remote \in UploadRemotes :
            up = [pc |-> "upload_empty", overwrite |-> overwrite,
                  local |-> [metadata |-> metadata, gamepasses |-> gamepasses,
                             products |-> products],
                  before |-> [metadata |-> metadata, gamepasses |-> gamepasses,
                              products |-> products],
                  remote |-> remote,
                  queue |-> <<>>, created |-> <<>>,
                  diffs |-> <<>>, confs |-> <<>>, done |-> 0,
                  prompts |-> <<>>, calls |-> <<>>,
                  saves |-> 0, exports |-> 0, disk |-> None, luau |-> None,
                  phase |-> "Running", result |-> None,
                  run |-> 1, earlier |-> <<>>, pending |-> {},
                  writes |-> <<>>]
    /\ TransportOff /\ FetchOff /\ DiffOff /\ DownloadOff /\ CallOff

NextUpload ==
    \/ UploadEmptyBegin
    \/ Create
    \/ UploadEmptyFinish
    \/ UploadModifiedBegin
    \/ Update
    \/ UploadFinish
    \/ LuauWrite

SpecUpload == InitUpload /\ [][NextUpload]_vars

(***************************************************************************)
(* Upload run after upload run on the same products.toml: each run reads   *)
(* the file the runs before it wrote and fetches what the platform holds   *)
(* after their calls.                                                      *)
(***************************************************************************)
MaxRuns == 2

\* VCSProducts::get_products on the products.toml that save_products wrote
\* for `catalog`: the products come back field by field; name-filters is
\* always written, as the empty array when it was absent, and is read back
\* as present
get_products(catalog) ==
    [catalog EXCEPT !.metadata.name_filters = Some(UnwrapOr(@, <<>>))]

\* the catalog a run reads from the products.toml the run before it left:
\* the file that run saved, or, when it saved nothing (it panicked in
\* upload_modified with nothing to create before), the file it had read
\* itself, unchanged and read to the same catalog again
FileAfter(u) == IF IsSome(u.disk) THEN get_products(Unwrap(u.disk)) ELSE u.before

\* the next `upload`, after one that returned or panicked and whose process
\* has ended (the runtime shuts down once the texts handed to its pool are
\* written): Uploader::create reads products.toml and fetches, and
\* upload_empty is about to run
UploadAgain ==
    /\ up.pc \in {"returned", "panicked"}
    /\ up.writes = <<>>
    /\ up.run < MaxRuns
    /\ \E overwrite \in BOOLEAN :
         LET catalog == FileAfter(up)
         IN  up' = [pc |-> "upload_empty", overwrite |-> overwrite,
                    local |-> catalog, before |-> catalog,
                    remote |-> PlatformAfter(up.remote, up.calls),
                    queue |-> <<>>, created |-> <<>>,
                    diffs |-> <<>>, confs |-> <<>>, done |-> 0,
                    prompts |-> <<>>, calls |-> <<>>,
                    saves |-> 0, exports |-> 0,
                    disk |-> None, luau |-> None,
                    phase |-> "Running", result |-> None,
                    run |-> up.run + 1, earlier |-> up.earlier \o up.calls,
                    pending |-> {}, writes |-> <<>>]
    /\ UNCHANGED <<api_token, treq, tlog, server, fetch, dcase, dl, fcall>>

\* the first run of a series: a catalog with the built-in template and a
\* Luau export, a platform that holds nothing or one pass (plain, or on
\* sale: a local one-time product with the id 1 then differs from it)
InitUploadRuns ==
    /\ \E overwrite \in BOOLEAN, gamepasses \in UploadGamepasses,
          products \in UploadProducts,
          remote \in {<<>>} \cup RemoteOfKind("GamePass", <<1>>) :
            LET catalog == [metadata |-> [discount_prefix |-> Some(DefaultTemplate),
                                          name_filters |-> None,
                                          luau_file |-> Some(LuauFile)],
                            gamepasses |-> gamepasses, products |-> products]
            IN  up = [pc |-> "upload_empty", overwrite |-> overwrite,
                      local |-> catalog, before |-> catalog, remote |-> remote,
                      queue |-> <<>>, created |-> <<>>,
                      diffs |-> <<>>, confs |-> <<>>, done |-> 0,
                      prompts |-> <<>>, calls |-> <<>>,
                      saves |-> 0, exports |-> 0, disk |-> None, luau |-> None,
                      phase |-> "Running", result |-> None,
                      run |-> 1, earlier |-> <<>>, pending |-> {},
                  writes |-> <<>>]
    /\ TransportOff /\ FetchOff /\ DiffOff /\ DownloadOff /\ CallOff

NextUploadRuns ==
    \/ UploadEmptyBegin
    \/ Create
    \/ UploadEmptyFinish
    \/ UploadModifiedBegin
    \/ Update
    \/ UploadFinish
    \/ UploadAgain
    \/ LuauWrite

SpecUploadRuns == InitUploadRuns /\ [][NextUploadRuns]_vars

(***************************************************************************)
(* The creation phase with its calls in flight: a create call is issued,   *)
(* stays pending while the transport sleeps or the platform is slow, and   *)
(* is settled by its answer. up.pending holds the queue positions of the   *)
(* calls issued and not yet settled.                                       *)
(***************************************************************************)
\* the create calls issued so far
Issued(u) == Len(u.created) + Cardinality(u.pending)

\* a loop that goes on to the next candidate without awaiting
issue_blocked_never(pending) == FALSE

\* each future is awaited inside the loop that builds it (lines 107-119 and
\* 136-149): the loop does not reach the next candidate while a call pends
issue_blocked(pending) == pending # {}

\* the loop reaches the next candidate: its create call is issued
CreateIssue ==
    /\ up.pc = "creating"
    /\ Issued(up) < Len(up.queue)
    /\ ~issue_blocked(up.pending)
    /\ up' = [up EXCEPT !.pending = @ \cup {Issued(up) + 1}]
    /\ UNCHANGED <<api_token, treq, tlog, server, fetch, dcase, dl, fcall>>

\* the oldest pending call is answered: `ok` is whether the platform created
\* the product
CreateSettle ==
    /\ up.pc = "creating"
    /\ Len(up.created) + 1 \in up.pending
    /\ \E ok \in BOOLEAN :
         LET item == up.queue[Len(up.created) + 1]
             product == apply_discount_prefix(
                            Collection(up.local, item.kind)[item.key],
                            up.local.metadata.discount_prefix)
             id == IF ok THEN Some(FirstNewId + Len(up.earlier) + Len(up.calls)) ELSE None
         IN  up' = [up EXCEPT
                      !.local = catalog_after_prefix(@, item.kind, item.key, product),
                      !.calls = Append(up.calls,
                                       CreateCall(item.kind, item.key,
                                                  update_request(product), id)),
                      !.created = Append(up.created, id),
                      !.pending = @ \ {Len(up.created) + 1}]
    /\ UNCHANGED <<api_token, treq, tlog, server, fetch, dcase, dl, fcall>>

\* uploads of catalogs against a platform that holds nothing yet
InitCreate ==
    /\ \E overwrite \in BOOLEAN, gamepasses \in UploadGamepasses,
          products \in UploadProducts :
            LET catalog == [metadata |-> [discount_prefix |-> Some(DefaultTemplate),
                                          name_filters |-> None,
                                          luau_file |-> None],
                            gamepasses |-> gamepasses, products |-> products]
            IN  up = [pc |-> "upload_empty", overwrite |-> overwrite,
                      local |-> catalog, before |-> catalog, remote |-> <<>>,
                      queue |-> <<>>, created |-> <<>>,
                      diffs |-> <<>>, confs |-> <<>>, done |-> 0,
                      prompts |-> <<>>, calls |-> <<>>,
                      saves |-> 0, exports |-> 0, disk |-> None, luau |-> None,
                      phase |-> "Running", result |-> None,
                      run |-> 1, earlier |-> <<>>, pending |-> {},
                  writes |-> <<>>]
    /\ TransportOff /\ FetchOff /\ DiffOff /\ DownloadOff /\ CallOff

NextCreate ==
    \/ UploadEmptyBegin
    \/ CreateIssue
    \/ CreateSettle
    \/ UploadEmptyFinish
    \/ UploadModifiedBegin
    \/ UploadFinish

\* the program takes the steps it can take; the answer to a pending call may
\* take any time
SpecCreate ==
    InitCreate /\ [][NextCreate]_vars /\ WF_vars(CreateIssue)

(***************************************************************************)
(* Upload: claims                                                          *)
(***************************************************************************)
CallsOf(op) == {i \in DOMAIN up.calls : up.calls[i].op = op}

PromptsOf(prompt) == {i \in DOMAIN up.prompts : up.prompts[i].prompt = prompt}

\* the create candidates of the catalog as read, as (kind, key) pairs
Candidates ==
    {<<kind, key>> \in Kinds \X (DOMAIN up.before.gamepasses \cup DOMAIN up.before.products) :
        /\ key \in DOMAIN Collection(up.before, kind)
        /\ IsNone(Collection(up.before, kind)[key].id)}

CreateCallsFor(kind, key) ==
    {i \in CallsOf("create") : up.calls[i].kind = kind /\ up.calls[i].key = key}

\* C15: with overwrite unset, a create call is only issued once the prompt
\* has been answered with a confirmation; the prompt is shown at most once,
\* not at all when no product lacks an id, and after a decline there is no
\* create call
C15_CreateOnlyAfterApproval ==
    (up.pc # "off" /\ ~up.overwrite) =>
        /\ CallsOf("create") # {} =>
              \E i \in PromptsOf("create") : up.prompts[i].answer = "Confirmed"
        /\ Cardinality(PromptsOf("create")) <= 1
        /\ Candidates = {} => PromptsOf("create") = {}
        /\ (\E i \in PromptsOf("create") : up.prompts[i].answer = "Closed") =>
              CallsOf("create") = {}

\* a run without overwrite whose one prompt was confirmed and that sent the
\* create calls of three candidates
C15_Witness ==
    /\ up.pc = "returned"
    /\ ~up.overwrite
    /\ Cardinality(PromptsOf("create")) = 1
    /\ Cardinality(CallsOf("create")) = 3
    /\ Cardinality(Candidates) = 3

\* the creation phase has run its loops and its write-back
CreationDone == up.pc \in {"upload_modified", "updating", "finish", "returned", "panicked"}

\* C16: in an approved creation phase every product lacking an id gets one
\* create call, whatever the other calls did; afterwards a candidate has an
\* id exactly when its own call succeeded, the id the platform returned,
\* and the phase has not returned an error
C16_EachCandidateCreatedOnce ==
    (up.pc # "off" /\ up.queue # <<>>) =>
        /\ \A c \in Candidates : Cardinality(CreateCallsFor(c[1], c[2])) <= 1
        /\ CreationDone =>
              \A c \in Candidates :
                 /\ Cardinality(CreateCallsFor(c[1], c[2])) = 1
                 /\ \A i \in CreateCallsFor(c[1], c[2]) :
                       Collection(up.local, c[1])[c[2]].id = up.calls[i].id
        /\ up.pc = "upload_modified" => up.phase = "Running"
        /\ (CallsOf("update") = {} /\ up.pc = "returned") => up.result = Some("Ok")

\* an approved creation phase of three candidates whose first create call
\* failed and whose later ones succeeded, saved
C16_Witness ==
    /\ up.pc = "upload_modified"
    /\ Len(up.queue) = 3
    /\ IsNone(up.calls[1].id) /\ IsSome(up.calls[2].id) /\ IsSome(up.calls[3].id)
    /\ IsNone(Collection(up.local, up.queue[1].kind)[up.queue[1].key].id)
    /\ Collection(up.local, up.queue[3].kind)[up.queue[3].key].id = up.calls[3].id
    /\ up.disk = Some(up.local)

\* the modification phase has built its diffs and had them confirmed
DiffsConfirmed == up.pc \in {"updating", "finish", "returned", "panicked"}

\* the local products for which upload_modified built a diff
ProductsWithDiff == {<<up.diffs[i].of, up.diffs[i].key>> : i \in DOMAIN up.diffs}

\* update calls go to confirmed (kind, id) pairs only; with overwrite the
\* confirmed pairs are those of all the diffs and nothing is asked, without
\* it they are what the diff viewer returned
UpdatesWithinConfirmed ==
    /\ \A i \in CallsOf("update") :
          <<up.calls[i].kind, Unwrap(up.calls[i].id)>> \in Range(up.confs)
    /\ up.overwrite =>
          /\ up.prompts = <<>>
          /\ DiffsConfirmed => up.confs = DiffPairs(up.diffs)
    /\ (~up.overwrite /\ DiffsConfirmed /\ up.diffs # <<>>) =>
          /\ \E i \in PromptsOf("diffs") : up.confs = up.prompts[i].answer
          /\ Range(up.confs) \subseteq Range(DiffPairs(up.diffs))

\* C17: remote update calls are issued only for (kind, id) pairs of the
\* confirmed set (all diffs with overwrite, unprompted; the subset the
\* collaborator returned without), and the product an update call sends is
\* always one for which a diff was built
C17_OnlyConfirmedDiffsUpdated ==
    up.pc # "off" =>
        /\ UpdatesWithinConfirmed
        /\ \A i \in CallsOf("update") :
              <<up.calls[i].kind, up.calls[i].key>> \in ProductsWithDiff

\* C18: with overwrite unset, when the 'sync products?' prompt is declined
\* there is no update call, whatever was selected, and the phase and the
\* run return success
C18_DeclinedSyncPushesNothing ==
    (up.pc # "off" /\ ~up.overwrite
       /\ \E i \in PromptsOf("sync") : up.prompts[i].answer = "Closed") =>
        /\ CallsOf("update") = {}
        /\ up.pc \in {"finish", "returned"}
        /\ up.phase = "Ok"
        /\ up.pc = "returned" => up.result = Some("Ok")

\* a returned run without overwrite in which two diffs were selected and the
\* sync prompt was then declined
C18_Witness ==
    /\ up.pc = "returned"
    /\ ~up.overwrite
    /\ \E i \in PromptsOf("diffs") : Len(up.prompts[i].answer) = 2
    /\ \E i \in PromptsOf("sync") : up.prompts[i].answer = "Closed"
    /\ up.result = Some("Ok")
    /\ up.calls = <<>>

FailedUpdates == {i \in CallsOf("update") : ~up.calls[i].ok}

\* C19: when the update call of a confirmed item fails no call follows it,
\* neither for a later item nor to undo an earlier update, and the upload
\* returns the error
C19_UpdateFailureAborts ==
    (up.pc # "off" /\ FailedUpdates # {}) =>
        /\ FailedUpdates = {Len(up.calls)}
        /\ up.pc \in {"finish", "returned"}
        /\ up.phase = "Err"
        /\ up.pc = "returned" => up.result = Some("Err")

\* a returned run of three confirmed items: the first update succeeded, the
\* second failed, the third was never sent, and the run returned the error
C19_Witness ==
    /\ up.pc = "returned"
    /\ Len(up.confs) = 3
    /\ Cardinality(CallsOf("update")) = 2
    /\ up.done = 1
    /\ up.result = Some("Err")

\* C20: an upload that returns has persisted and exported the catalog it
\* holds before returning, whatever happened: failed creations, a declined
\* creation prompt, no diffs, a declined sync prompt, a failed update
C20_PersistedBeforeReturn ==
    up.pc # "off" =>
        /\ up.pc # "returned" => up.result = None
        /\ up.pc = "returned" =>
              /\ up.saves >= 1 /\ up.exports >= 1
              /\ up.disk = Some(up.local)
              /\ IsSome(up.local.metadata.luau_file) =>
                    up.luau = Some(<<up.local>>)

\* what holds of a returned run: products.toml holds the catalog, and
\* serialize_luau was called with it, so that its text is in the Luau file
\* or waits to be written
SavedBeforeReturn ==
    up.pc # "off" =>
        /\ up.pc # "returned" => up.result = None
        /\ up.pc = "returned" =>
              /\ up.saves >= 1 /\ up.exports >= 1
              /\ up.disk = Some(up.local)
              /\ IsSome(up.local.metadata.luau_file) =>
                    \/ up.local \in Range(up.writes)
                    \/ /\ up.luau # Some(<<>>)
                       /\ Unwrap(up.luau)[Len(Unwrap(up.luau))] = up.local

\* a run whose update failed has returned the error with the catalog saved,
\* the id of a product created in the run included, and the Luau file
\* still empty
ReturnedBeforeExportWritten ==
    /\ up.pc = "returned"
    /\ up.result = Some("Err")
    /\ \E i \in CallsOf("create") : IsSome(up.calls[i].id)
    /\ up.disk = Some(up.local)
    /\ up.luau = Some(<<>>)
    /\ up.local # up.before

\* an update call is sent while the Luau file that upload_empty emptied is
\* still empty
UpdateBeforeExportWritten ==
    /\ up.pc # "off"
    /\ CallsOf("update") # {}
    /\ up.exports = 1
    /\ up.luau = Some(<<>>)

\* once the texts handed to the pool are written, as they are when the
\* process ends, the Luau file of a returned run holds the text of its
\* catalog: the two exports of a run are of the same catalog, so the order
\* of the two writes does not show
ExportWrittenAtShutdown ==
    (up.pc = "returned" /\ up.writes = <<>>
        /\ IsSome(up.local.metadata.luau_file)) =>
            up.luau = Some(<<up.local>>)

\* a returned run with two exports whose texts are both written
BothExportsWritten ==
    /\ up.pc = "returned"
    /\ up.exports = 2
    /\ up.writes = <<>>
    /\ up.luau = Some(<<up.local>>)
    /\ up.local # up.before

\* the local products that carry an id no fetched record has, as (kind, key)
Unmatched ==
    {<<kind, key>> \in Kinds \X (DOMAIN up.local.gamepasses \cup DOMAIN up.local.products) :
        /\ key \in DOMAIN Collection(up.local, kind)
        /\ IsSome(Collection(up.local, kind)[key].id)
        /\ \A i \in DOMAIN up.remote :
              up.remote[i].product.id # Collection(up.local, kind)[key].id}

\* C21: a local product whose id no fetched remote record has gets no diff
\* and no update call and makes no error (the phase fails only on a failed
\* update call and never panics for it); the other products are still
\* diffed and updated
C21_UnmatchedIdSkipped ==
    up.pc # "off" =>
        \A x \in Unmatched :
            /\ x \notin ProductsWithDiff
            /\ \A i \in CallsOf("update") :
                  <<up.calls[i].kind, up.calls[i].key>> # x
            /\ up.phase = "Err" => FailedUpdates # {}
            /\ up.pc = "panicked" =>
                  LocalWithId(up.local, up.confs[up.done + 1][1],
                              up.confs[up.done + 1][2]) = {}
                  /\ \E i \in DOMAIN up.remote :
                        up.remote[i].product.id = Some(up.confs[up.done + 1][2])

\* a returned run in which a pass of the catalog as read had an id that no
\* record has, and another product was updated with success
C21_Witness ==
    /\ up.pc = "returned"
    /\ up.result = Some("Ok")
    /\ \E x \in Unmatched : x[2] \in DOMAIN Collection(up.before, x[1])
                            /\ IsSome(Collection(up.before, x[1])[x[2]].id)
    /\ \E i \in CallsOf("update") : up.calls[i].ok

\* the create calls of the runs before this one that gave an id
CreatedEarlier ==
    {j \in DOMAIN up.earlier : up.earlier[j].op = "create" /\ IsSome(up.earlier[j].id)}

\* C22: over runs of upload on the persisted catalog, a product created with
\* success in a run is read back with its id by every later run and is
\* never sent a create call again; a run sends create calls only for
\* products that the catalog it read holds without id
C22_CreatedOnceAcrossRuns ==
    up.pc # "off" =>
        /\ \A j \in CreatedEarlier :
              /\ Collection(up.before, up.earlier[j].kind)[up.earlier[j].key].id
                    = up.earlier[j].id
              /\ CreateCallsFor(up.earlier[j].kind, up.earlier[j].key) = {}
        /\ \A i \in CallsOf("create") :
              IsNone(Collection(up.before, up.calls[i].kind)[up.calls[i].key].id)

\* a second run that has ended its creation phase: the first run had one
\* creation fail and one succeed, the second sent a create call for the
\* failed one and none for the other
C22_Witness ==
    /\ up.run = 2
    /\ up.pc \in {"upload_modified", "updating", "finish", "returned"}
    /\ CreatedEarlier # {}
    /\ \E j \in DOMAIN up.earlier :
          /\ up.earlier[j].op = "create" /\ IsNone(up.earlier[j].id)
          /\ CreateCallsFor(up.earlier[j].kind, up.earlier[j].key) # {}
    /\ Cardinality(CallsOf("create")) = 1

\* a second run after one that panicked in upload_modified before any save:
\* it has read the file the first run read, name-filters absent as before
ReadAfterPanicWithoutSave ==
    /\ up.run = 2
    /\ up.pc = "upload_empty"
    /\ up.earlier = <<>>
    /\ IsNone(up.before.metadata.name_filters)

\* a second run after one that saved: name-filters is read back as the
\* empty array the save wrote
ReadAfterSave ==
    /\ up.run = 2
    /\ up.before.metadata.name_filters = Some(<<>>)

\* the metadata a later run reads has name-filters present exactly when a
\* run before it saved; a run that sent a call has saved unless it panicked
NameFiltersWrittenBySave ==
    (up.pc # "off" /\ up.run = 2 /\ IsNone(up.before.metadata.name_filters)) =>
        \A j \in DOMAIN up.earlier : up.earlier[j].op # "create"

(***************************************************************************)
(* Product::get_price, called on one product                               *)
(***************************************************************************)
MaxPrice == 120

MaxDiscount == 100

\* products that differ in price and discount only
Priced(price, discount) ==
    MkProduct(Some(1), VIP, None, Some(<<"d">>), TRUE, discount, price, None)

InitPrice ==
    /\ fcall \in {[pc |-> "call", fn |-> "get_price", self |-> Priced(p, d),
                   result |-> None] :
                     p \in 0..MaxPrice,
                     d \in {None} \cup {Some(n) : n \in 0..MaxDiscount}}
    /\ TransportOff /\ FetchOff /\ DiffOff /\ DownloadOff /\ UploadOff

\* product.get_price()
GetPrice ==
    /\ fcall.pc = "call"
    /\ fcall' = [fcall EXCEPT !.pc = "done", !.result = Some(get_price(fcall.self))]
    /\ UNCHANGED <<tvars, fvars, dcase, dl, up>>

NextPrice == GetPrice

SpecPrice == InitPrice /\ [][NextPrice]_vars

\* floor(p * (100 - d) / 100) in the integers
ExactDiscounted(p, d) == (p * (100 - d)) \div 100

\* C23: for a price p >= 0 the effective price is floor(p * (100 - d) / 100)
\* for a discount d in 1..100, and p for a discount of 0 or none; a discount
\* of 100 gives 0 and the effective price never exceeds p
C23_EffectivePriceIsFloor ==
    (fcall.pc = "done" /\ fcall.fn = "get_price") =>
        LET p == fcall.self.price
            discount == fcall.self.discount
            price == Unwrap(fcall.result)
        IN  /\ (IsSome(discount) /\ Unwrap(discount) \in 1..100) =>
                   price = ExactDiscounted(p, Unwrap(discount))
            /\ (IsNone(discount) \/ discount = Some(0)) => price = p
            /\ discount = Some(100) => price = 0
            /\ price <= p

\* what get_price keeps of it: the floor or one less, never more than p,
\* p itself without an active discount, 0 at a discount of 100
PriceWithinOneOfFloor ==
    (fcall.pc = "done" /\ fcall.fn = "get_price") =>
        LET p == fcall.self.price
            discount == fcall.self.discount
            price == Unwrap(fcall.result)
        IN  /\ (IsSome(discount) /\ Unwrap(discount) \in 1..100) =>
                   price \in {ExactDiscounted(p, Unwrap(discount)),
                              ExactDiscounted(p, Unwrap(discount)) - 1}
            /\ (IsNone(discount) \/ discount = Some(0)) => price = p
            /\ discount = Some(100) => price = 0
            /\ price <= p /\ price >= 0

(***************************************************************************)
(* The request built for a create or an update call: the product with      *)
(* apply_discount_prefix applied, turned into a ProductUpdateRequest       *)
(***************************************************************************)
\* a template of the user's
SaleTemplate == <<"-", "{", "}", "%">>

RequestTemplates == {None, Some(DefaultTemplate), Some(SaleTemplate)}

RequestProducts ==
    {MkProduct(id, VIP, prefix, Some(<<"d">>), active, discount, price, None) :
        id \in {None, Some(1)},
        prefix \in {None, Some(NewTag)},
        active \in BOOLEAN,
        discount \in {None, Some(0), Some(20), Some(30)},
        price \in {0, 90, 1000}}

InitRequest ==
    /\ fcall \in {[pc |-> "call", fn |-> "update_request", self |-> p,
                   prefix |-> t, result |-> None] :
                     p \in RequestProducts, t \in RequestTemplates}
    /\ TransportOff /\ FetchOff /\ DiffOff /\ DownloadOff /\ UploadOff

\* apply_discount_prefix(&mut product, prefix), then
\* ProductUpdateRequest::from(&product): upload.rs 102-105 with 63, and
\* 273-278
BuildRequest ==
    /\ fcall.pc = "call"
    /\ fcall' = [fcall EXCEPT
                    !.pc = "done",
                    !.result = Some(update_request(
                                   apply_discount_prefix(fcall.self, fcall.prefix)))]
    /\ UNCHANGED <<tvars, fvars, dcase, dl, up>>

NextRequest == BuildRequest

SpecRequest == InitRequest /\ [][NextRequest]_vars

\* the templates of the model with the discount d in place of the slot
Substituted(prefix, d) ==
    IF prefix = Some(SaleTemplate) THEN <<"-">> \o ToDecimal(d) \o <<"%">>
    ELSE FilledTemplate(d)

\* the name without any template: the prefix, when there is one, and the name
Untemplated(p) ==
    IF IsSome(p.prefix) THEN Unwrap(p.prefix) \o <<" ">> \o p.name ELSE p.name

\* the name a request carries is the one the claim gives
RequestNameAsClaimed ==
    (fcall.pc = "done" /\ fcall.fn = "update_request") =>
        LET p == fcall.self
            request == Unwrap(fcall.result)
        IN  IF IsSome(p.discount) /\ Unwrap(p.discount) > 0
            THEN request.name = Substituted(fcall.prefix, Unwrap(p.discount))
                                   \o <<" ">> \o p.name
            ELSE request.name = Untemplated(p)

\* C24: the request built for a product with an active discount d carries as
\* name the template with d in its slot, a space and the raw name, and as
\* price floor(price * (100 - d) / 100); for a product without an active
\* discount the template is not applied and the price is the price
C24_DiscountedRequest ==
    (fcall.pc = "done" /\ fcall.fn = "update_request") =>
        LET p == fcall.self
            request == Unwrap(fcall.result)
        IN  /\ RequestNameAsClaimed
            /\ request.price =
                  Some(IF IsSome(p.discount) /\ Unwrap(p.discount) > 0
                       THEN ExactDiscounted(p.price, Unwrap(p.discount))
                       ELSE p.price)

\* the claim's own example: VIP at 1000 with a discount of 20 is sent under
\* the filled template at 800
RequestExample ==
    (/\ fcall.pc = "done" /\ fcall.fn = "update_request"
     /\ fcall.self.discount = Some(20) /\ fcall.self.price = 1000
     /\ fcall.prefix # Some(SaleTemplate)) =>
        /\ Unwrap(fcall.result).name = FilledTemplate(20) \o <<" ">> \o VIP
        /\ Unwrap(fcall.result).price = Some(800)

(***************************************************************************)
(* Further claims about the rate-limit transport (SpecTransport)           *)
(***************************************************************************)
\* C25: a request that cannot be cloned and is answered with 429 is sent
\* once and never again; what handle returns for it is that 429 response
C25_UncloneableNotRetried ==
    \A r \in Requests :
        ~treq[r].cloneable =>
            /\ tlog[r].sends <= 1
            /\ tlog[r].n429 = 1 =>
                  /\ treq[r].pc \in {"sleep", "done"}
                  /\ treq[r].pc = "done" =>
                        /\ treq[r].result = tlog[r].out
                        /\ Is429(Unwrap(treq[r].result))

\* a request without clone has returned the 429 of its only send, having
\* slept once
C25_Witness ==
    \E r \in Requests :
        /\ ~treq[r].cloneable
        /\ treq[r].pc = "done"
        /\ tlog[r].sends = 1 /\ tlog[r].sleeps = 1
        /\ Is429(Unwrap(treq[r].result))

\* C26: with a credential configured when the request is handed to the
\* client, every send of the request, the first and the retries, carries it
\* in the x-api-key header; with none no send carries the header, and the
\* request is sent all the same
C26_CredentialOnEverySend ==
    \A r \in Requests :
        /\ treq[r].pc # "idle" => treq[r].key = tlog[r].token
        /\ IsSome(tlog[r].token) => tlog[r].keyed = tlog[r].sends
        /\ IsNone(tlog[r].token) => tlog[r].keyed = 0
        /\ treq[r].pc = "done" => tlog[r].sends >= 1

\* with a credential, a request retried to its sixth send, each send with
\* the header
C26_Witness ==
    \E r \in Requests :
        /\ tlog[r].token = Some(<<"k","e","y">>) /\ api_token = tlog[r].token
        /\ treq[r].pc = "done"
        /\ tlog[r].sends = 6 /\ tlog[r].keyed = 6

\* without a credential, a request that was sent, retried and answered
NoCredentialStillSent ==
    /\ IsNone(api_token)
    /\ \E r \in Requests :
          treq[r].pc = "done" /\ tlog[r].sends = 2 /\ tlog[r].keyed = 0

\* set_api_token called while a request is in flight: the request keeps the
\* header it was given, or none, on its retries, and the requests handed
\* over afterwards carry the new credential
CredentialOfTheHandOver ==
    \A r \in Requests :
        (treq[r].pc # "idle" /\ tlog[r].token # api_token) =>
            /\ treq[r].key # api_token
            /\ IsNone(tlog[r].token) => tlog[r].keyed = 0

\* two requests in flight carry different credentials: set_api_token was
\* called between the two hand-overs
TwoCredentialsInFlight ==
    \E r1, r2 \in Requests :
        /\ tlog[r1].sends >= 1 /\ tlog[r2].sends >= 1
        /\ IsSome(treq[r1].key) /\ IsSome(treq[r2].key)
        /\ treq[r1].key # treq[r2].key
        /\ tlog[r1].out = None /\ tlog[r2].out = None

\* C27: each request in flight counts its own 429 responses against its own
\* cap: its attempt number is the number of retries it made itself, a
\* request with a clone is handed a 429 only after max_429_retries + 1 of
\* its own sends were answered with 429, and what a request returns is the
\* answer to its own last send
C27_RetriesPerRequest ==
    \A r \in Requests :
        /\ treq[r].pc = "send" => treq[r].attempt = tlog[r].sends
        /\ treq[r].pc \in {"await", "sleep"} => treq[r].attempt = tlog[r].sends - 1
        /\ treq[r].pc \in {"send", "sleep"} =>
              /\ tlog[r].n429 = tlog[r].sends
              /\ tlog[r].sends <= max_429_retries
        /\ treq[r].pc = "await" => tlog[r].n429 = tlog[r].sends - 1
        /\ treq[r].pc = "done" =>
              /\ treq[r].result = tlog[r].out
              /\ (treq[r].cloneable /\ Is429(Unwrap(treq[r].result))) =>
                    tlog[r].n429 = max_429_retries + 1

\* every step is the step of one request and leaves the others as they were
StepsOfOneRequest ==
    [][\E r \in Requests :
          \A q \in Requests \ {r} : treq'[q] = treq[q] /\ tlog'[q] = tlog[q]]_vars

\* two requests in flight, each answered with 429 five times already, ten in
\* all, and each about to make the retry that is still its own
C27_Witness ==
    /\ NumRequests >= 2
    /\ \A r \in Requests :
          /\ treq[r].pc = "send"
          /\ tlog[r].n429 = max_429_retries
          /\ treq[r].attempt = max_429_retries

(***************************************************************************)
(* Claims about the creation phase with calls in flight (SpecCreate)       *)
(***************************************************************************)
\* the first of several approved create calls is pending
FirstCreatePending ==
    /\ up.pc = "creating"
    /\ Len(up.queue) >= 2
    /\ up.pending = {1}

\* C28: a create call that stays pending does not block the others: while
\* the first call of a queue of several is pending, however long, the
\* create call of another candidate gets issued
C28_PendingCreateDoesNotBlock ==
    [](FirstCreatePending => <>(Issued(up) >= 2))

\* what the loops do: at most one create call is ever pending
OneCreateAtATime ==
    up.pc # "off" => Cardinality(up.pending) <= 1

(***************************************************************************)
(* canonical_name, called on one name, and again on what it returned       *)
(***************************************************************************)
\* the most pieces a name of the model is made of
MaxNamePieces == 4

\* the discount prefix as DEFAULT_FILTERS spells it
MojibakePrefix == MOJIBAKE \o <<"2", "0", "%", " ", "O", "F", "F">> \o MOJIBAKE

NamePieces ==
    {<<"x">>, <<"y">>, <<" ">>, <<"\n">>, <<"[">>, <<"]">>, <<"#">>, MojibakePrefix}

RECURSIVE NamesOf(_)
NamesOf(n) ==
    IF n = 0 THEN {<<>>}
    ELSE NamesOf(n - 1) \cup {piece \o rest : piece \in NamePieces, rest \in NamesOf(n - 1)}

\* a filter of the user's: the words "x y"
WordsFilter == Lit(<<"x", " ", "y">>)

\* metadata.name_filters: absent, empty, or a list of the user's
FilterLists ==
    {None, Some(<<>>), Some(<<Lazy(<<"[">>, <<"]">>)>>), Some(<<WordsFilter>>)}

InitCanonical ==
    /\ fcall \in {[pc |-> "call", fn |-> "canonical_name", s |-> s,
                   filters |-> fs, result |-> None, again |-> None] :
                     s \in NamesOf(MaxNamePieces), fs \in FilterLists}
    /\ TransportOff /\ FetchOff /\ DiffOff /\ DownloadOff /\ UploadOff

\* canonical_name(s, &filters), then canonical_name of the result
Canonicalize ==
    /\ fcall.pc = "call"
    /\ LET once == canonical_name(fcall.s, fcall.filters)
       IN  fcall' = [fcall EXCEPT !.pc = "done", !.result = Some(once),
                                  !.again = Some(canonical_name(once, fcall.filters))]
    /\ UNCHANGED <<tvars, fvars, dcase, dl, up>>

NextCanonical == Canonicalize

SpecCanonical == InitCanonical /\ [][NextCanonical]_vars

\* C29: for every name and every filter list, the built-in one and the
\* user's, canonicalizing the canonical name gives the canonical name
C29_CanonicalIdempotent ==
    (fcall.pc = "done" /\ fcall.fn = "canonical_name") =>
        fcall.again = fcall.result

\* with the built-in filters (name-filters absent or empty) it is so
CanonicalIdempotentBuiltIn ==
    (fcall.pc = "done" /\ fcall.fn = "canonical_name"
       /\ UnwrapOr(fcall.filters, <<>>) = <<>>) =>
        fcall.again = fcall.result

(***************************************************************************)
(* retry_wait_from_headers, called on one 429 response                     *)
(***************************************************************************)
\* what a rate-limit header may hold: whole numbers (with blanks around, a
\* sign, leading zeros), and values that are no whole number (a word, the
\* empty value, a fraction, a negative number, a byte outside ASCII)
HeaderValues ==
    {<<"2">>, <<" ", "3", " ">>, <<"+", "4">>, <<"0", "7">>, <<"0">>,
     <<"a", "b", "c">>, <<>>, <<"1", ".", "5">>, <<"-", "1">>, <<"U+00E9">>}

InitWait ==
    /\ fcall \in {[pc |-> "call", fn |-> "retry_wait_from_headers",
                   resp |-> Response(TOO_MANY_REQUESTS, ra, rs), result |-> None] :
                     ra \in OptionOf(HeaderValues), rs \in OptionOf(HeaderValues)}
    /\ TransportOff /\ FetchOff /\ DiffOff /\ DownloadOff /\ UploadOff

\* Self::retry_wait_from_headers(&resp).as_secs()
RetryWait ==
    /\ fcall.pc = "call"
    /\ fcall' = [fcall EXCEPT !.pc = "done",
                              !.result = Some(retry_wait_from_headers(fcall.resp))]
    /\ UNCHANGED <<tvars, fvars, dcase, dl, up>>

NextWait == RetryWait

SpecWait == InitWait /\ [][NextWait]_vars

\* the whole number of seconds a header holds, if it holds one
SecondsOf(header) ==
    IF IsSome(header) THEN ParseU64(Trim(Unwrap(header))) ELSE None

\* C30: the wait is the retry-after header when it is there and holds a
\* whole number of seconds, otherwise the reset header when that holds one,
\* otherwise 1 second; a retry-after that holds no whole number gives way to
\* the reset header, not to the default
C30_WaitFromHeaders ==
    (fcall.pc = "done" /\ fcall.fn = "retry_wait_from_headers") =>
        LET ra == SecondsOf(fcall.resp.retry_after)
            rs == SecondsOf(fcall.resp.reset)
            wait == Unwrap(fcall.result)
        IN  /\ IsSome(ra) => wait = Unwrap(ra)
            /\ (IsNone(ra) /\ IsSome(rs)) => wait = Unwrap(rs)
            /\ (IsNone(ra) /\ IsNone(rs)) => wait = 1

\* a retry-after of "abc" beside a reset of " 3 " has given 3 seconds
C30_Witness ==
    /\ fcall.pc = "done" /\ fcall.fn = "retry_wait_from_headers"
    /\ fcall.resp.retry_after = Some(<<"a", "b", "c">>)
    /\ fcall.resp.reset = Some(<<" ", "3", " ">>)
    /\ fcall.result = Some(3)

\* the values of the model read as the program reads them
HeaderValuesRead ==
    /\ SecondsOf(Some(<<"2">>)) = Some(2)
    /\ SecondsOf(Some(<<" ", "3", " ">>)) = Some(3)
    /\ SecondsOf(Some(<<"+", "4">>)) = Some(4)
    /\ SecondsOf(Some(<<"0", "7">>)) = Some(7)
    /\ SecondsOf(Some(<<"0">>)) = Some(0)
    /\ \A v \in {<<"a", "b", "c">>, <<>>, <<"1", ".", "5">>, <<"-", "1">>, <<"U+00E9">>} :
          SecondsOf(Some(v)) = None
    /\ SecondsOf(None) = None

(***************************************************************************)
(* Rate-limit transport: the sleeps between the sends (SpecTransport)      *)
(***************************************************************************)
\* C31: a request sleeps once between two consecutive sends and not before
\* its first send; the sleep lasts the wait computed from the 429 answer to
\* the earlier send plus the cushion; what is sent again is the clone of the
\* request, with the header of the first send, and only a request that has
\* a clone is sent again
C31_OneSleepBetweenSends ==
    \A r \in Requests :
        /\ tlog[r].sends = 0 => tlog[r].sleeps = 0
        /\ tlog[r].sleeps \in {tlog[r].sends - 1, tlog[r].sends}
        /\ treq[r].pc \in {"send", "sleep"} => tlog[r].sleeps = tlog[r].sends
        /\ treq[r].pc = "await" => tlog[r].sleeps = tlog[r].sends - 1
        /\ treq[r].pc = "sleep" => treq[r].wait_ms = tlog[r].slept_ms
        /\ (treq[r].pc \in {"send", "sleep"} /\ tlog[r].sends >= 1) =>
              /\ Is429(Unwrap(tlog[r].out))
              /\ tlog[r].slept_ms =
                    retry_wait_from_headers(Unwrap(tlog[r].out)) * 1000 + cushion_ms
        /\ tlog[r].sends >= 2 =>
              /\ treq[r].cloneable
              /\ tlog[r].keyed \in {0, tlog[r].sends}

\* a request about to be sent the third time after a 429 that carried a
\* retry-after of 2 seconds: two sends, two sleeps, the last of 2075 ms
C31_Witness ==
    \E r \in Requests :
        /\ treq[r].pc = "send"
        /\ tlog[r].sends = 2 /\ tlog[r].sleeps = 2
        /\ tlog[r].out = Some(Response(TOO_MANY_REQUESTS, Some(<<"2">>), Some(<<"3">>)))
        /\ tlog[r].slept_ms = 2075

(***************************************************************************)
(* Upload: the order of the diffs and of the update calls (SpecUpload)     *)
(***************************************************************************)
\* the update calls of the run, in the order of their sending
UpdateCalls == SelectSeq(up.calls, LAMBDA call : call.op = "update")

\* C32: the diffs are held with every diff of a one-time product before
\* every diff of a pass and, within a kind, by ascending id; with overwrite
\* the update calls are sent in this order, one per diff from the first on
C32_DiffOrderAndUpdateOrder ==
    up.pc # "off" =>
        /\ \A i, j \in DOMAIN up.diffs :
              i < j =>
                 /\ ~(up.diffs[i].kind = "GamePass" /\ up.diffs[j].kind = "DevProduct")
                 /\ up.diffs[i].kind = up.diffs[j].kind =>
                       up.diffs[i].diff.id <= up.diffs[j].diff.id
        /\ up.overwrite =>
              /\ Len(UpdateCalls) <= Len(up.diffs)
              /\ \A n \in DOMAIN UpdateCalls :
                    <<UpdateCalls[n].kind, Unwrap(UpdateCalls[n].id)>>
                        = <<up.diffs[n].kind, up.diffs[n].diff.id>>

\* a run with overwrite that has updated a one-time product, then the pass
\* with id 1, then the pass with id 2
C32_Witness ==
    /\ up.pc = "returned" /\ up.overwrite
    /\ Len(UpdateCalls) = 3
    /\ UpdateCalls[1].kind = "DevProduct" /\ UpdateCalls[1].id = Some(3)
    /\ UpdateCalls[2].kind = "GamePass" /\ UpdateCalls[2].id = Some(1)
    /\ UpdateCalls[3].kind = "GamePass" /\ UpdateCalls[3].id = Some(2)
    /\ \A n \in 1..3 : UpdateCalls[n].ok

(***************************************************************************)
(* SpecConverge: a local product is diffed against its remote record as    *)
(* upload_modified does it (the catalog's metadata is always passed), the  *)
(* update call built for it succeeds and the platform stores what the      *)
(* request carried, and the unchanged local product is diffed again by the *)
(* next run.                                                               *)
(***************************************************************************)
MaxPushes == 2

\* the metadata table of a catalog, as upload_modified passes it to diff
ConvergeMetadatas ==
    {MkMetadata(None, None), MkMetadata(Some(DefaultTemplate), None)}

InitConverge ==
    /\ dcase \in {[pc |-> "call", self |-> l, other |-> r, metadata |-> Some(m),
                   result |-> None, pushes |-> 0, request |-> None] :
                     l \in DiffLocals, r \in DiffRemotes, m \in ConvergeMetadatas}
    /\ TransportOff /\ FetchOff /\ DownloadOff /\ UploadOff /\ CallOff

\* upload.rs lines 271-288 for a product whose diff was confirmed, the call
\* succeeding: the prefix is applied to a clone, the request is built from
\* it and the platform stores the fields the form carries. The run then
\* saves products.toml (line 329), name-filters written as the empty array
\* when the table had none; the next run reads the metadata back from that
\* file, fetches the record and diffs again
PushUpdate ==
    /\ dcase.pc = "done"
    /\ IsSome(dcase.result)
    /\ dcase.pushes < MaxPushes
    /\ LET local_product ==
               apply_discount_prefix(dcase.self,
                                     Unwrap(dcase.metadata).discount_prefix)
           request == update_request(local_product)
       IN  dcase' = [dcase EXCEPT
                        !.pc = "call",
                        !.other = RecordOf(dcase.other, Unwrap(dcase.self.id),
                                           request),
                        !.request = Some(request),
                        !.metadata =
                            Some([Unwrap(dcase.metadata) EXCEPT
                                    !.name_filters = Some(UnwrapOr(@, <<>>))]),
                        !.pushes = @ + 1]
    /\ UNCHANGED <<tvars, fvars, dl, up, fcall>>

NextConverge == Diff \/ PushUpdate

SpecConverge == InitConverge /\ [][NextConverge]_vars

\* C33: once the update call of a product has succeeded and the remote record
\* holds what the request carried, the diff of the unchanged local product
\* against that record is None
C33_SecondDiffIsNone ==
    (dcase.pc = "done" /\ dcase.pushes >= 1) => IsNone(dcase.result)

\* the products for which TLC finds the second diff None: description and
\* regional-pricing flag present, and no discount, or a positive one with a
\* template in the metadata
ConvergesWhenFieldsSent ==
    (/\ dcase.pc = "done" /\ dcase.pushes >= 1
     /\ IsSome(dcase.self.description)
     /\ IsSome(dcase.self.regional_pricing)
     /\ \/ IsNone(dcase.self.discount)
        \/ /\ has_discount(dcase.self)
           /\ IsSome(Unwrap(dcase.metadata).discount_prefix))
        => IsNone(dcase.result)

(***************************************************************************)
(* Upload: the kind recorded with a diff (SpecUpload)                      *)
(***************************************************************************)
\* C34: every diff of the modification phase records the kind of the local
\* collection that holds its product, which is the kind of the remote record
\* it was compared with, and the lookup of the local product of a confirmed
\* pair always finds an entry: the run never panics
C34_DiffKindIsLocalKind ==
    up.pc # "off" =>
        /\ \A i \in DOMAIN up.diffs : up.diffs[i].kind = up.diffs[i].of
        /\ up.pc # "panicked"

\* the two halves of C34, each of which TLC refutes on its own
DiffKindIsLocalKind ==
    up.pc # "off" => \A i \in DOMAIN up.diffs : up.diffs[i].kind = up.diffs[i].of

LookupAlwaysFinds == up.pc # "panicked"

(***************************************************************************)
(* The title diff compares and the name the update request carries         *)
(* (SpecConverge)                                                          *)
(***************************************************************************)
\* the new value of the Title entry of the diff that led to the update
TitleCompared == Unwrap(dcase.result).diffs[1].new

\* C35: the title that diff compares with the remote name is the name the
\* update request built for the product carries, whatever the discount
\* (absent, 0 or positive) and whether the metadata holds a template or not
C35_ComparedTitleIsRequestName ==
    (dcase.pc = "call" /\ dcase.pushes >= 1) =>
        Unwrap(dcase.request).name = TitleCompared

\* the cases in which TLC finds the two equal: no discount, or a positive
\* discount with a template in the metadata
TitlesAgreeWithTemplate ==
    (/\ dcase.pc = "call" /\ dcase.pushes >= 1
     /\ \/ IsNone(dcase.self.discount)
        \/ /\ has_discount(dcase.self)
           /\ IsSome(Unwrap(dcase.metadata).discount_prefix))
        => Unwrap(dcase.request).name = TitleCompared

(***************************************************************************)
(* Upload: creation before modification (SpecUpload)                       *)
(***************************************************************************)
\* C36: in one upload run every create call is sent before every update
\* call, and no update call of the run is for a product that got its id
\* from a create call of the run
C36_CreatesBeforeUpdates ==
    up.pc # "off" =>
        \A i, j \in DOMAIN up.calls :
            (up.calls[i].op = "create" /\ up.calls[j].op = "update") =>
                /\ i < j
                /\ IsSome(up.calls[i].id) =>
                      ~(/\ up.calls[j].kind = up.calls[i].kind
                        /\ \/ up.calls[j].key = up.calls[i].key
                           \/ up.calls[j].id = up.calls[i].id)

\* a run that created the pass gold and then updated the pass vip
C36_Witness ==
    /\ up.pc = "returned"
    /\ Len(up.calls) = 2
    /\ up.calls[1].op = "create" /\ up.calls[1].kind = "GamePass"
    /\ up.calls[1].key = KeyGold /\ up.calls[1].id = Some(FirstNewId)
    /\ up.calls[2].op = "update" /\ up.calls[2].kind = "GamePass"
    /\ up.calls[2].key = KeyVip /\ up.calls[2].ok
    /\ up.local.gamepasses[KeyGold].id = Some(FirstNewId)

(***************************************************************************)
(* Upload: what a run changes in the catalog (SpecUpload)                  *)
(***************************************************************************)
\* the create call of the run that gave the product `key` of `kind` its id
CreatedInRun(kind, key, id) ==
    \E n \in DOMAIN up.calls :
        /\ up.calls[n].op = "create" /\ up.calls[n].kind = kind
        /\ up.calls[n].key = key /\ up.calls[n].id = id

\* `now` holds the products of `before` under the same keys, every field but
\* the id unchanged, and an id differs only where the run created the product
OnlyIdsSet(now, before) ==
    \A kind \in {"GamePass", "DevProduct"} :
        LET n == Collection(now, kind)
            b == Collection(before, kind)
        IN  /\ DOMAIN n = DOMAIN b
            /\ \A key \in DOMAIN n :
                  /\ [n[key] EXCEPT !.id = b[key].id] = b[key]
                  /\ n[key].id # b[key].id =>
                        /\ IsNone(b[key].id)
                        /\ CreatedInRun(kind, key, n[key].id)

\* C37: the catalog in memory and the catalog written to products.toml
\* differ from the catalog the run started with only in the ids of the
\* products the run created
C37_RunSetsOnlyIds ==
    up.pc # "off" =>
        /\ OnlyIdsSet(up.local, up.before)
        /\ IsSome(up.disk) => OnlyIdsSet(Unwrap(up.disk), up.before)

\* a run with the built-in template that created the sale pass vip and
\* updated the pass gold: the file holds vip unprefixed with its new id
C37_Witness ==
    /\ up.pc = "returned"
    /\ \E n, m \in DOMAIN up.calls :
          /\ up.calls[n].op = "create" /\ up.calls[n].key = KeyVip
          /\ up.calls[n].kind = "GamePass"
          /\ up.calls[n].request.name = DiscountedVIP
          /\ up.calls[m].op = "update" /\ up.calls[m].ok
    /\ up.disk = Some(up.local)
    /\ up.local.gamepasses[KeyVip] = UpSale(Some(FirstNewId))
    /\ up.before.gamepasses[KeyVip] = UpSale(None)

(***************************************************************************)
(* Download merge: the active flag (SpecDownload)                          *)
(***************************************************************************)
\* the turns whose product is still stored under its key: no later turn
\* wrote the same key of the same collection
StoredTurns ==
    {n \in DOMAIN dl.log :
        \A m \in DOMAIN dl.log :
            m > n => ~(dl.log[m].kind = dl.log[n].kind /\ dl.log[m].key = dl.log[n].key)}

\* C38: the product the merge stores for a fetched record has the record's
\* for-sale flag as its active flag, with and without overwrite and whatever
\* the active flag of the local product it was matched with
C38_ActiveFromRemote ==
    dl.pc # "off" =>
        /\ \A n \in DOMAIN dl.log : dl.log[n].merged.active = dl.log[n].remote.active
        /\ \A n \in StoredTurns :
              LET stored == Collection(dl.local, dl.log[n].kind)[dl.log[n].key]
              IN  /\ stored.id = dl.log[n].remote.id
                  /\ stored.active = dl.log[n].remote.active

\* a saved merge without overwrite that matched an active local product with
\* a record not for sale and stored it inactive, at its local price
C38_Witness ==
    /\ dl.pc = "saved" /\ ~dl.overwrite
    /\ \E n \in MatchedTurns \cap StoredTurns :
          LET stored == Collection(Unwrap(dl.disk), dl.log[n].kind)[dl.log[n].key]
          IN  /\ ExistingOf(n).active /\ ~dl.log[n].remote.active
              /\ ~stored.active
              /\ stored.price = ExistingOf(n).price
              /\ stored.price # dl.log[n].remote.price

\* no two products of a collection of the catalog read carry the same id
LocalIdsDistinct ==
    \A kind \in {"GamePass", "DevProduct"} :
        \A j, k \in DOMAIN Collection(dl.before, kind) :
            (j # k /\ IsSome(Collection(dl.before, kind)[j].id)) =>
                Collection(dl.before, kind)[j].id # Collection(dl.before, kind)[k].id

\* when the ids of the catalog read are distinct, every product of the saved
\* catalog that carries the id of a fetched record of its kind has that
\* record's flag
ActiveFromRemoteById ==
    (dl.pc = "saved" /\ LocalIdsDistinct) =>
        \A n \in DOMAIN dl.remote :
            \A key \in DOMAIN Collection(dl.local, dl.remote[n].kind) :
                LET stored == Collection(dl.local, dl.remote[n].kind)[key]
                IN  stored.id = dl.remote[n].product.id =>
                        stored.active = dl.remote[n].product.active

(***************************************************************************)
(* SpecViewer: DiffViewer::confirm_diffs (ui/diffs.rs). The frame holds    *)
(* the viewer, the event handled last with the viewer it found, and the    *)
(* confirmation list before the event before it when that was a press of   *)
(* 'c'.                                                                    *)
(* A diff is carried by its kind and id, the fields handle_event reads.    *)
(***************************************************************************)
MaxDiffs == 3

\* (product type, diff): the entries of the list the viewer is given
ViewerPairs == {[kind |-> k, id |-> i] : k \in {"GamePass", "DevProduct"}, i \in {1, 2}}

\* the lists upload_modified passes: not empty (lines 224-227), sorted with
\* the one-time products first and by ascending id (lines 217-222); two
\* entries carry the same kind and id when two local products were compared
\* with one remote record
ViewerLists ==
    UNION {{l \in [1..n -> ViewerPairs] :
               \A i, j \in 1..n :
                  i < j => \/ KindRank(l[i].kind) < KindRank(l[j].kind)
                           \/ l[i].kind = l[j].kind /\ l[i].id <= l[j].id} :
           n \in 1..MaxDiffs}

\* crossterm events: key events with code, SHIFT modifier and kind, and the
\* others (resize, mouse, focus, paste)
ViewerKeys == {"q", "Q", "C", "c", "Up", "Down", "Enter", "x"}

ViewerEvents ==
    {[key |-> TRUE, code |-> c, shift |-> sh, press |-> pr] :
        c \in ViewerKeys, sh \in BOOLEAN, pr \in BOOLEAN}
    \cup {[key |-> FALSE, code |-> "resize", shift |-> FALSE, press |-> FALSE]}

InitViewer ==
    /\ fcall \in {[pc |-> "events", fn |-> "confirm_diffs",
                   viewer |-> NewViewer(diffs),
                   prev |-> None, toggle |-> None, result |-> None] :
                     diffs \in ViewerLists}
    /\ TransportOff /\ FetchOff /\ DiffOff /\ DownloadOff /\ UploadOff

\* with_terminal: while !should_quit, the next event is handled
HandleEvent ==
    /\ fcall.pc = "events"
    /\ ~fcall.viewer.should_quit
    /\ \E event \in ViewerEvents :
         fcall' = [fcall EXCEPT
                     !.viewer = handle_event(@, event),
                     !.toggle = IF /\ IsSome(fcall.prev)
                                    /\ Unwrap(fcall.prev).event.key
                                    /\ Unwrap(fcall.prev).event.press
                                    /\ Unwrap(fcall.prev).event.code = "c"
                                 THEN Some(Unwrap(fcall.prev).before.confs)
                                 ELSE None,
                     !.prev = Some([event |-> event, before |-> fcall.viewer])]
    /\ UNCHANGED <<tvars, fvars, dcase, dl, up>>

\* the loop of with_terminal ends; confirm_diffs returns get_confs().clone()
ViewerReturn ==
    /\ fcall.pc = "events"
    /\ fcall.viewer.should_quit
    /\ fcall' = [fcall EXCEPT !.pc = "returned", !.result = Some(fcall.viewer.confs)]
    /\ UNCHANGED <<tvars, fvars, dcase, dl, up>>

NextViewer == HandleEvent \/ ViewerReturn

SpecViewer == InitViewer /\ [][NextViewer]_vars

(***************************************************************************)
(* The diff viewer: the confirmation list (SpecViewer)                     *)
(***************************************************************************)
IsViewer == fcall.pc # "off" /\ fcall.fn = "confirm_diffs"

\* the event handled last was a press of the key `code`
Pressed(code) ==
    /\ IsSome(fcall.prev)
    /\ Unwrap(fcall.prev).event.key
    /\ Unwrap(fcall.prev).event.press
    /\ Unwrap(fcall.prev).event.code = code

\* the viewer the event handled last found
Before == Unwrap(fcall.prev).before

\* the two events handled last were presses of 'c'; FirstConfs is the list
\* before the first of them
PressedTwice == Pressed("c") /\ IsSome(fcall.toggle)

FirstConfs == Unwrap(fcall.toggle)

AllPairs(v) == [i \in DOMAIN v.diffs |-> PairOf(v.diffs[i])]

AllSelected(v) == \A i \in DOMAIN v.diffs : Contains(v.confs, PairOf(v.diffs[i]))

ConfsWithinDiffs ==
    \A n \in DOMAIN fcall.viewer.confs :
        \E i \in DOMAIN fcall.viewer.diffs :
            PairOf(fcall.viewer.diffs[i]) = fcall.viewer.confs[n]

ConfsWithoutRepeat ==
    \A n, m \in DOMAIN fcall.viewer.confs :
        n # m => fcall.viewer.confs[n] # fcall.viewer.confs[m]

SelectAllOrClear ==
    Pressed("C") =>
        fcall.viewer.confs = IF AllSelected(Before) THEN <<>> ELSE AllPairs(Before)

\* C39: whatever the events, the confirmation list holds only pairs of the
\* diff list and each at most once; 'c' pressed twice on an entry gives the
\* list back; 'C' clears the list when every entry is selected and selects
\* every entry otherwise
C39_ConfirmationList ==
    IsViewer =>
        /\ ConfsWithinDiffs
        /\ ConfsWithoutRepeat
        /\ PressedTwice => fcall.viewer.confs = FirstConfs
        /\ SelectAllOrClear

\* no two entries of the diff list carry the same kind and id
PairsDistinct ==
    \A i, j \in DOMAIN fcall.viewer.diffs :
        i # j => PairOf(fcall.viewer.diffs[i]) # PairOf(fcall.viewer.diffs[j])

\* on a diff list without repeated pairs: the list holds pairs of the diff
\* list, each once; 'C' clears or selects all; 'c' twice gives back the same
\* pairs, and the same list when the entry was not selected or was the last
\* of the list
ConfirmationListWhenPairsDistinct ==
    (IsViewer /\ PairsDistinct) =>
        /\ ConfsWithinDiffs
        /\ ConfsWithoutRepeat
        /\ SelectAllOrClear
        /\ PressedTwice =>
              LET pair == PairOf(Before.diffs[Before.selected + 1])
              IN  /\ Range(fcall.viewer.confs) = Range(FirstConfs)
                  /\ (\/ ~Contains(FirstConfs, pair)
                      \/ FirstConfs[Len(FirstConfs)] = pair)
                        => fcall.viewer.confs = FirstConfs

(***************************************************************************)
(* The diff viewer: the selected index and 'q' (SpecViewer)                *)
(***************************************************************************)
\* C40: on a diff list that is not empty the selected index stays within
\* 0 .. len - 1 whatever the events; Up at 0 selects the last entry and Down
\* at the last entry selects 0; 'q' without SHIFT closes the detail view
\* when one is open, without quitting, and quits otherwise
C40_SelectedWithinList ==
    IsViewer =>
        /\ fcall.viewer.selected \in 0..(Len(fcall.viewer.diffs) - 1)
        /\ (Pressed("Up") /\ Before.selected = 0) =>
              fcall.viewer.selected = Len(fcall.viewer.diffs) - 1
        /\ (Pressed("Down") /\ Before.selected = Len(Before.diffs) - 1) =>
              fcall.viewer.selected = 0
        /\ (Pressed("q") /\ ~Unwrap(fcall.prev).event.shift) =>
              IF IsSome(Before.view)
              THEN /\ IsNone(fcall.viewer.view)
                   /\ ~fcall.viewer.should_quit
                   /\ fcall.viewer.confs = Before.confs
              ELSE fcall.viewer.should_quit

\* Up pressed on the first of three entries, the detail view open: the last
\* entry is selected
C40_Witness ==
    /\ IsViewer
    /\ Len(fcall.viewer.diffs) = 3
    /\ Pressed("Up")
    /\ Before.selected = 0 /\ IsSome(Before.view)
    /\ fcall.viewer.selected = 2

\* 'q' with SHIFT, and 'Q', quit with the detail view open
ShiftedQuitFromView ==
    (IsViewer /\ (Pressed("q") \/ Pressed("Q"))
     /\ Unwrap(fcall.prev).event.shift) => fcall.viewer.should_quit

\* the lists the viewer holds are those ConfsReachable gives for its diffs
ConfsAreReachable ==
    IsViewer =>
        fcall.viewer.confs \in ConfsReachable(NewViewer(fcall.viewer.diffs), {<<>>})

====
